---- MODULE Spec2Model ----
(***************************************************************************)
(* A model of tutorLink's client-side synchronisation layer:               *)
(*   - the request gateway, apiRequest of frontend/src/services/api.ts     *)
(*     (deduplication, per-endpoint throttle, global 429 backoff, retry);  *)
(*   - calculateBackoffDelay as a pure function of attempt and header;     *)
(*   - the messaging page's optimistic sends and the socket pushes,        *)
(*     delivery and read receipts merged into the query cache;             *)
(*   - the session (AuthProvider) and the socket connection it drives;     *)
(*   - presence, typing and notification events, the typing indicator of   *)
(*     the compose box, and the server's createNotification.               *)
(* Strings the code concatenates or parses are sequences of one-character  *)
(* strings.  Time is Date.now() in milliseconds.                            *)
(***************************************************************************)
EXTENDS Integers, Sequences, FiniteSets, TLC

VARIABLES
    \* ---- request gateway (api.ts) ----
    clock,            \* Date.now()
    ticks,            \* number of free clock steps taken
    ncalls,           \* number of apiRequest calls made by the application
    pendingRequests,  \* api.ts:8   key -> promise <<call, retryCount>> or NoPromise
    rateLimitState,   \* api.ts:11  [retryAfter, last429Time]
    requestThrottle,  \* api.ts:17  endpoint -> time of last request, 0 when absent
    req,              \* per call: the request (options and endpoint)
    pc,               \* per call: where its current invocation is suspended
    retryCount,       \* per call: retryCount of its current invocation
    now,              \* per call: the `now` its current invocation read at line 61
    deadline,         \* per call: when the timer it awaits fires
    joined,           \* per call: the pending promise its invocation returned (line 70)
    result,           \* per call: how its own request promise settled
    fetches,          \* per call: number of underlying fetches issued
    lastStatus,       \* per call: status its current invocation's fetch was answered with, 0 if none
    storedUser,       \* localStorage "tutorlink_user" present
    expiredSignals,   \* number of sessionExpired events dispatched
    redirects,        \* number of login redirects scheduled
    \* ---- calculateBackoffDelay as a pure function ----
    bkAttempt, bkHeader, bkDelay,
    \* ---- message reconciliation (Messaging.tsx, SocketContext.tsx) ----
    msgClock,                \* Date.now() of the messaging client
    messageInput,            \* Messaging.tsx:37
    selectedConversationId,  \* Messaging.tsx:34
    selectedRecipient,       \* Messaging.tsx:40
    messagesCache,           \* query data ["messages", conversationId]
    conversationsCache,      \* query data ["conversations"]
    sends,                   \* the handleSendMessage invocations
    pendingSend,             \* pendingRequests entries of the send-message requests
    serverMessages,          \* messages the server has stored, by server id
    pushes,                  \* per server id: newMessage pushes delivered
    \* AuthProvider and SocketProvider
    page,                    \* "mounting" until initAuth ran, then "ready"
    authUser,                \* authState.user: 0 is null, n > 0 the n-th user object
    authLoading,             \* authState.loading
    users,                   \* user objects created so far
    storedToken,             \* token of the stored session item, "" if it has none
    verify,                  \* the deferred getCurrentUser of initAuth
    loginCall,               \* login(): "idle" or "inflight"
    updateCall,              \* updateProfile(): "idle" or "inflight"
    socket,                  \* SocketProvider's socket state: 0 is null
    live,                    \* the connections that are open, [id, token]
    opened,                  \* connections created so far
    reloads,                 \* page loads caused by the scheduled redirect
    \* SocketProvider's state fed by inbound events (SocketContext.tsx)
    onlineUsers,             \* SocketContext.tsx:54, userId -> online
    typingStatus,            \* SocketContext.tsx:55, conversationId -> Set of userIds
    notifications,           \* query data ["notifications", userId]
    permission,              \* Notification.permission
    shown,                   \* browser notifications created, their bodies
    \* the typing indicator of the compose box (Messaging.tsx)
    mounted,                 \* the messaging view is mounted
    isTyping,                \* Messaging.tsx:42
    typingTimeout,           \* the armed timer of typingTimeoutRef: its conversation
    lastTyping,              \* per conversation: the last typing emission
    typingTrue,              \* number of typing:true emissions
    \* createNotification on the server (backend/utils/notifications.js)
    ntRows,                  \* rows of the notifications table
    ntEmitted,               \* newNotification emissions, [socket, id]
    ntIo,                    \* the socket server has been initialised
    ntConnected,             \* userId -> socket ids connected for the user
    ntCalls,                 \* per target user: the createNotification call
    ntSettled,               \* the target users in the order their calls settled
    ntAll                    \* the promise of createNotificationsForUsers

apiVars == <<clock, ticks, ncalls, pendingRequests, rateLimitState, requestThrottle,
             req, pc, retryCount, now, deadline, joined, result, fetches,
             lastStatus, storedUser, expiredSignals, redirects>>
bkVars == <<bkAttempt, bkHeader, bkDelay>>
msgVars == <<msgClock, messageInput, selectedConversationId, selectedRecipient,
             messagesCache, conversationsCache, sends, pendingSend, serverMessages,
             pushes>>
sockVars == <<page, authUser, authLoading, users, storedToken, verify, loginCall,
              updateCall, socket, live, opened, reloads>>
ctxVars == <<onlineUsers, typingStatus, notifications, permission, shown>>
typVars == <<mounted, isTyping, typingTimeout, lastTyping, typingTrue>>
ntVars == <<ntRows, ntEmitted, ntIo, ntConnected, ntCalls, ntSettled, ntAll>>
rtVars == <<ctxVars, typVars, ntVars>>
vars == <<apiVars, bkVars, msgVars, sockVars, rtVars>>

(***************************************************************************)
(* Bounds of the model and constants of the program.                       *)
(***************************************************************************)
MaxCalls == 2
MaxBurstCalls == 3
MaxSessionCalls == 2
MaxTicks == 2
TickMs == 50
StartTime == 1000
MaxAttempt == 5
MaxHeaderLen == 2

THROTTLE_DELAY == 100
maxRetries == 3
BackoffBase == 1000
BackoffCap == 10000
MsPerSecond == 1000

Min(a, b) == IF a < b THEN a ELSE b

RECURSIVE Pow2(_)
Pow2(n) == IF n <= 0 THEN 1 ELSE 2 * Pow2(n - 1)

(***************************************************************************)
(* Strings.                                                                *)
(***************************************************************************)
Str_GET == <<"G", "E", "T">>
Str_POST == <<"P", "O", "S", "T">>
Colon == <<":">>
Quote == "\""
Backslash == "\\"
Str_auth == <<"/", "a", "u", "t", "h", "/">>

\* JSON.stringify of a string value: quoted, with quotes and backslashes escaped.
RECURSIVE JsonEscape(_)
JsonEscape(s) ==
    IF s = <<>> THEN <<>>
    ELSE (IF Head(s) = Quote \/ Head(s) = Backslash
          THEN <<Backslash, Head(s)>> ELSE <<Head(s)>>) \o JsonEscape(Tail(s))

JsonStringify(s) == <<Quote>> \o JsonEscape(s) \o <<Quote>>

\* api.ts:21-25.  An absent method or body is the empty string (falsy).
createRequestKey(endpoint, options) ==
    LET method == IF options.method # <<>> THEN options.method ELSE Str_GET
        body == IF options.body # <<>> THEN JsonStringify(options.body) ELSE <<>>
    IN method \o Colon \o endpoint \o Colon \o body

Requests ==
    { [endpoint |-> <<"/", "a">>, options |-> [method |-> <<>>, body |-> <<>>]],
      [endpoint |-> <<"/", "a">>, options |-> [method |-> Str_POST, body |-> <<"x">>]],
      [endpoint |-> <<"/", "b">>, options |-> [method |-> Str_GET, body |-> <<>>]] }

\* The endpoints of authApi (api.ts:186-232) and of usersApi.getCurrentUser.
Ep_login == Str_auth \o <<"l", "o", "g", "i", "n">>
Ep_register == Str_auth \o <<"r", "e", "g", "i", "s", "t", "e", "r">>
Ep_forgot == Str_auth \o <<"f", "o", "r", "g", "o", "t", "-", "p", "a", "s", "s", "w", "o", "r", "d">>
Ep_reset == Str_auth \o <<"r", "e", "s", "e", "t", "-", "p", "a", "s", "s", "w", "o", "r", "d">>
Ep_me == Str_auth \o <<"m", "e">>
AuthEndpoints == {Ep_login, Ep_register, Ep_forgot, Ep_reset}

\* The calls of the session study: the four authentication calls, the current-user
\* query and one other query.
SessionRequests ==
    { [endpoint |-> e, options |-> [method |-> Str_POST, body |-> <<"x">>]] :
          e \in AuthEndpoints }
    \cup { [endpoint |-> Ep_me, options |-> [method |-> <<>>, body |-> <<>>]],
           [endpoint |-> <<"/", "a">>, options |-> [method |-> <<>>, body |-> <<>>]] }

NoRequest == [endpoint |-> <<>>, options |-> [method |-> <<>>, body |-> <<>>]]
Endpoints == {q.endpoint : q \in Requests \cup SessionRequests}
Keys == {createRequestKey(q.endpoint, q.options) : q \in Requests \cup SessionRequests}
KeyOf(c) == createRequestKey(req[c].endpoint, req[c].options)

(***************************************************************************)
(* The Retry-After header and the backoff delay.                           *)
(***************************************************************************)
NoHeader == <<"null">>      \* response.headers.get returned null
NaN == -1                   \* parseInt found no digits (falsy, like 0)
Digits == <<"0", "1", "2", "3", "4", "5", "6", "7", "8", "9">>
IsDigit(ch) == \E i \in 1..10 : Digits[i] = ch
DigitVal(ch) == (CHOOSE i \in 1..10 : Digits[i] = ch) - 1

\* parseInt(s, 10) for s without sign or blanks: the leading digits, NaN if none.
RECURSIVE ParseDigits(_, _)
ParseDigits(s, acc) ==
    IF s = <<>> \/ ~IsDigit(Head(s)) THEN acc
    ELSE ParseDigits(Tail(s), 10 * acc + DigitVal(Head(s)))

parseInt(s) == IF s = <<>> \/ ~IsDigit(Head(s)) THEN NaN ELSE ParseDigits(s, 0)

Undefined == -2
\* api.ts:102-103.  A null or empty header is falsy.
ParseRetryAfter(header) ==
    IF header = NoHeader \/ header = <<>> THEN Undefined ELSE parseInt(header)

Truthy(n) == n # Undefined /\ n # NaN /\ n # 0

\* api.ts:42-49
\* calculateBackoffDelay without the cap of api.ts:48
calculateBackoffDelay_Uncapped(attempt, retryAfter) ==
    IF Truthy(retryAfter) THEN retryAfter * MsPerSecond
    ELSE BackoffBase * Pow2(attempt)

calculateBackoffDelay(attempt, retryAfter) ==
    IF Truthy(retryAfter) THEN retryAfter * MsPerSecond
    ELSE Min(BackoffBase * Pow2(attempt), BackoffCap)

\* api.ts:102-106: the delay apiRequest uses for a 429 with this header.
RetryDelay(attempt, header) == calculateBackoffDelay(attempt, ParseRetryAfter(header))

\* the test of api.ts:111 with <= for <
CanRetry_OneMore(r) == r <= maxRetries

\* api.ts:111
CanRetry(r) == r < maxRetries


(***************************************************************************)
(* Responses and the errors apiRequest throws.                             *)
(***************************************************************************)
RateLimitMsg == "Rate limit exceeded. Please try again later."
NetworkMsg == "Network error"
HttpMsg(status) == IF status = 401 THEN "HTTP 401" ELSE "HTTP 500"

\* A response body: JSON with optional message and error fields ("" when absent),
\* or not parseable.
ApiBodies ==
    { [parseable |-> FALSE, message |-> "", error |-> ""],
      [parseable |-> TRUE, message |-> "", error |-> "slow down"] }
ApiHeaders == {NoHeader, <<"0">>, <<"3">>}
ErrorStatuses == {401, 500}

NoData == [message |-> "", error |-> ""]
NoResult == [kind |-> "none", status |-> 0, message |-> "", originalError |-> NoData]
Value == [kind |-> "value", status |-> 200, message |-> "", originalError |-> NoData]
Rejected == [kind |-> "rejected", status |-> 0, message |-> "", originalError |-> NoData]
StillPending == [kind |-> "pending", status |-> 0, message |-> "", originalError |-> NoData]
NeverSettles == [kind |-> "never", status |-> 0, message |-> "", originalError |-> NoData]

\* a || b on strings
OrElse(a, b) == IF a # "" THEN a ELSE b

\* api.ts:118-123 and 153-158: response.json(), or the fallback when it throws
ErrorData(body, fallback) ==
    IF body.parseable THEN [message |-> body.message, error |-> body.error]
    ELSE [message |-> "", error |-> fallback]

\* api.ts:117-127
RateLimitError(body) ==
    LET errorData == ErrorData(body, RateLimitMsg)
    IN [kind |-> "error", status |-> 429,
        message |-> OrElse(errorData.message, OrElse(errorData.error, RateLimitMsg)),
        originalError |-> errorData]

\* api.ts:153-166
HttpError(status, body) ==
    LET errorData == ErrorData(body, NetworkMsg)
    IN [kind |-> "error", status |-> status,
        message |-> OrElse(errorData.message, OrElse(errorData.error, HttpMsg(status))),
        originalError |-> errorData]

\* String.prototype.includes
Includes(s, sub) ==
    \E i \in 1..(Len(s) + 1) :
        i + Len(sub) - 1 <= Len(s) /\ SubSeq(s, i, i + Len(sub) - 1) = sub

\* the test of api.ts:134-137 without its last disjunct
IsAuthEndpoint_NoReset(endpoint) ==
    \/ Includes(endpoint, Str_auth \o <<"l", "o", "g", "i", "n">>)
    \/ Includes(endpoint, Str_auth \o <<"r", "e", "g", "i", "s", "t", "e", "r">>)
    \/ Includes(endpoint, Str_auth \o <<"f", "o", "r", "g", "o", "t", "-",
                                        "p", "a", "s", "s", "w", "o", "r", "d">>)

\* api.ts:134-137
IsAuthEndpoint(endpoint) ==
    \/ Includes(endpoint, Str_auth \o <<"l", "o", "g", "i", "n">>)
    \/ Includes(endpoint, Str_auth \o <<"r", "e", "g", "i", "s", "t", "e", "r">>)
    \/ Includes(endpoint, Str_auth \o <<"f", "o", "r", "g", "o", "t", "-",
                                        "p", "a", "s", "s", "w", "o", "r", "d">>)
    \/ Includes(endpoint, Str_auth \o <<"r", "e", "s", "e", "t", "-",
                                        "p", "a", "s", "s", "w", "o", "r", "d">>)

(***************************************************************************)
(* Promises.  <<c, r>> is the request promise (api.ts:93) that the          *)
(* invocation of call c with retryCount r created.  It settles with the     *)
(* call's own result, or was resolved (line 114) with the promise of the    *)
(* next invocation; an invocation that returned a pending promise (line 70) *)
(* follows that promise.  So every promise of call c ends as c's chain ends.*)
(***************************************************************************)
Calls == 1..(IF MaxCalls > MaxBurstCalls THEN MaxCalls ELSE MaxBurstCalls)
NoPromise == <<0, 0>>

RECURSIVE OutcomeFrom(_, _)
OutcomeFrom(c, seen) ==
    IF c \in seen THEN NeverSettles
    ELSE IF pc[c] = "joined" THEN OutcomeFrom(joined[c][1], seen \cup {c})
    ELSE IF pc[c] = "settled" THEN result[c]
    ELSE StillPending

\* What the caller of call c observes.
Outcome(c) == OutcomeFrom(c, {})
Settled(c) == Outcome(c).kind \in {"value", "error", "rejected"}

(***************************************************************************)
(* apiRequest, one invocation, up to its first suspension.                  *)
(***************************************************************************)
\* api.ts:67-79, 92-98, 176-179 with `now` = n
FromDedupCheck(c, q, n, r) ==
    LET requestKey == createRequestKey(q.endpoint, q.options)
        lastRequestTime == requestThrottle[q.endpoint]
        timeSinceLastRequest == n - lastRequestTime
    IN IF pendingRequests[requestKey] # NoPromise
       THEN [pc |-> "joined", deadline |-> 0, joined |-> pendingRequests[requestKey],
             fetch |-> FALSE]
       ELSE IF timeSinceLastRequest < THROTTLE_DELAY
       THEN [pc |-> "twait", deadline |-> clock + (THROTTLE_DELAY - timeSinceLastRequest),
             joined |-> NoPromise, fetch |-> FALSE]
       ELSE [pc |-> "fetching", deadline |-> 0, joined |-> NoPromise, fetch |-> TRUE]

\* api.ts:56-65
Invoke(c, q, r) ==
    IF rateLimitState.retryAfter > clock
    THEN [pc |-> "gwait", deadline |-> clock + (rateLimitState.retryAfter - clock),
          joined |-> NoPromise, fetch |-> FALSE]
    ELSE FromDedupCheck(c, q, clock, r)

\* The state after an invocation of call c ran to its suspension u; finallyDelete
\* is the finally block (api.ts:170-173) of the invocation that made this one.
Suspend(c, q, r, n, u, finallyDelete) ==
    LET requestKey == createRequestKey(q.endpoint, q.options)
        stored == IF u.fetch THEN [pendingRequests EXCEPT ![requestKey] = <<c, r>>]
                  ELSE pendingRequests
    IN /\ pc' = [pc EXCEPT ![c] = u.pc]
       /\ retryCount' = [retryCount EXCEPT ![c] = r]
       /\ now' = [now EXCEPT ![c] = IF u.pc = "joined" THEN 0 ELSE n]
       /\ deadline' = [deadline EXCEPT ![c] = u.deadline]
       /\ joined' = [joined EXCEPT ![c] = u.joined]
       /\ pendingRequests' =
              IF finallyDelete THEN [stored EXCEPT ![requestKey] = NoPromise] ELSE stored
       /\ lastStatus' = [lastStatus EXCEPT ![c] = 0]
       /\ IF u.fetch
          THEN /\ requestThrottle' = [requestThrottle EXCEPT ![q.endpoint] = clock]
               /\ fetches' = [fetches EXCEPT ![c] = @ + 1]
          ELSE UNCHANGED <<requestThrottle, fetches>>

sessionVars == <<storedUser, expiredSignals, redirects>>

\* The application calls apiRequest(endpoint, options); limit bounds the calls made.
Call(q, limit) ==
    /\ ncalls < limit
    /\ LET c == ncalls + 1
           requestKey == createRequestKey(q.endpoint, q.options)
       IN /\ ncalls' = c
          /\ req' = [req EXCEPT ![c] = q]
          /\ Suspend(c, q, 0, clock, Invoke(c, q, 0), FALSE)
    /\ UNCHANGED <<rtVars, clock, ticks, rateLimitState, result, sessionVars, bkVars, msgVars, sockVars>>

\* api.ts:64: the global-backoff timer fires; the invocation goes on with its old `now`.
GlobalWaitDone(c) ==
    /\ pc[c] = "gwait"
    /\ clock = deadline[c]
    /\ Suspend(c, req[c], retryCount[c], now[c],
               FromDedupCheck(c, req[c], now[c], retryCount[c]), FALSE)
    /\ UNCHANGED <<rtVars, clock, ticks, ncalls, rateLimitState, req, result, sessionVars, bkVars, msgVars, sockVars>>

\* api.ts:77-98, 177: the throttle timer fires; the fetch is issued.
ThrottleDone(c) ==
    /\ pc[c] = "twait"
    /\ clock = deadline[c]
    /\ Suspend(c, req[c], retryCount[c], now[c],
               [pc |-> "fetching", deadline |-> 0, joined |-> NoPromise, fetch |-> TRUE],
               FALSE)
    /\ UNCHANGED <<rtVars, clock, ticks, ncalls, rateLimitState, req, result, sessionVars, bkVars, msgVars, sockVars>>

\* The request promise of call c settles with res; its finally block runs.
Settle(c, res) ==
    /\ pc' = [pc EXCEPT ![c] = "settled"]
    /\ lastStatus' = [lastStatus EXCEPT ![c] = res.status]
    /\ result' = [result EXCEPT ![c] = res]
    /\ now' = [now EXCEPT ![c] = 0]
    /\ pendingRequests' = [pendingRequests EXCEPT ![KeyOf(c)] = NoPromise]

\* api.ts:95, 170-173: fetch rejects (no response).
FetchRejects(c) ==
    /\ pc[c] = "fetching"
    /\ Settle(c, Rejected)
    /\ UNCHANGED <<rtVars, clock, ticks, ncalls, rateLimitState, requestThrottle, req, retryCount,
                   deadline, joined, fetches, sessionVars, bkVars, msgVars, sockVars>>

\* api.ts:169-173: a 2xx response; `return response.json()` runs the finally block
\* at once and leaves the promise following the body's parse.
RespondOk(c) ==
    /\ pc[c] = "fetching"
    /\ pc' = [pc EXCEPT ![c] = "parsing"]
    /\ lastStatus' = [lastStatus EXCEPT ![c] = 200]
    /\ now' = [now EXCEPT ![c] = 0]
    /\ pendingRequests' = [pendingRequests EXCEPT ![KeyOf(c)] = NoPromise]
    /\ UNCHANGED <<rtVars, clock, ticks, ncalls, rateLimitState, requestThrottle, req, retryCount,
                   deadline, joined, result, fetches, sessionVars, bkVars, msgVars, sockVars>>

\* api.ts:169: the body is parsed (or is not JSON, and the promise rejects).
JsonDone(c, parsed) ==
    /\ pc[c] = "parsing"
    /\ pc' = [pc EXCEPT ![c] = "settled"]
    /\ result' = [result EXCEPT ![c] = IF parsed THEN Value ELSE Rejected]
    /\ UNCHANGED <<rtVars, clock, ticks, ncalls, pendingRequests, rateLimitState, requestThrottle,
                   req, retryCount, now, deadline, joined, fetches, sessionVars, bkVars, msgVars, sockVars, lastStatus>>

\* api.ts:101-108
On429(c, header) ==
    LET backoffDelay == RetryDelay(retryCount[c], header)
    IN rateLimitState' = [retryAfter |-> now[c] + backoffDelay, last429Time |-> now[c]]

\* api.ts:101-112: a 429 with retries left; the backoff timer is started.
Respond429Retry(c, header) ==
    /\ pc[c] = "fetching"
    /\ CanRetry(retryCount[c])
    /\ On429(c, header)
    /\ pc' = [pc EXCEPT ![c] = "bwait"]
    /\ lastStatus' = [lastStatus EXCEPT ![c] = 429]
    /\ deadline' = [deadline EXCEPT ![c] = clock + RetryDelay(retryCount[c], header)]
    /\ UNCHANGED <<rtVars, clock, ticks, ncalls, pendingRequests, requestThrottle, req, retryCount,
                   now, joined, result, fetches,
                   sessionVars, bkVars, msgVars, sockVars>>

\* api.ts:101-108, 117-127, 170-173: a 429 with the retries used up.
Respond429Exhausted(c, header, body) ==
    /\ pc[c] = "fetching"
    /\ ~CanRetry(retryCount[c])
    /\ On429(c, header)
    /\ Settle(c, RateLimitError(body))
    /\ UNCHANGED <<rtVars, clock, ticks, ncalls, requestThrottle, req, retryCount, deadline, joined,
                   fetches, sessionVars, bkVars, msgVars, sockVars>>

\* api.ts:130-167, 170-173: another non-2xx response.
RespondError(c, status, body) ==
    /\ pc[c] = "fetching"
    /\ IF status = 401 /\ ~IsAuthEndpoint(req[c].endpoint)
       THEN /\ storedUser' = FALSE
            /\ expiredSignals' = expiredSignals + 1
            /\ redirects' = redirects + 1
       ELSE UNCHANGED sessionVars
    /\ Settle(c, HttpError(status, body))
    /\ UNCHANGED <<rtVars, clock, ticks, ncalls, rateLimitState, requestThrottle, req, retryCount,
                   deadline, joined, fetches, bkVars, msgVars, sockVars>>

\* api.ts:112-114, 170-173: the backoff timer fires; apiRequest is called again with
\* retryCount + 1 and runs to its first suspension, the request promise is resolved
\* with what it returned, and the finally block deletes the entry of requestKey.
BackoffDone(c) ==
    /\ pc[c] = "bwait"
    /\ clock = deadline[c]
    /\ Suspend(c, req[c], retryCount[c] + 1, clock,
               Invoke(c, req[c], retryCount[c] + 1), TRUE)
    /\ UNCHANGED <<rtVars, clock, ticks, ncalls, rateLimitState, req, result, sessionVars, bkVars, msgVars, sockVars>>

(***************************************************************************)
(* Time.  A timer fires when the clock reaches its deadline.                *)
(***************************************************************************)
Waiting(c) == pc[c] \in {"gwait", "twait", "bwait"}
Timers == {deadline[c] : c \in {d \in Calls : Waiting(d)}}
NextTimer == CHOOSE t \in Timers : \A u \in Timers : t <= u

AdvanceToTimer ==
    /\ Timers # {}
    /\ NextTimer > clock
    /\ clock' = NextTimer
    /\ UNCHANGED <<rtVars, ticks, ncalls, pendingRequests, rateLimitState, requestThrottle, req,
                   pc, retryCount, now, deadline, joined, result, fetches, sessionVars, bkVars, msgVars, sockVars, lastStatus>>

Tick ==
    /\ ticks < MaxTicks
    /\ Timers # {} => clock + TickMs <= NextTimer
    /\ clock' = clock + TickMs
    /\ ticks' = ticks + 1
    /\ UNCHANGED <<rtVars, ncalls, pendingRequests, rateLimitState, requestThrottle, req,
                   pc, retryCount, now, deadline, joined, result, fetches, sessionVars, bkVars, msgVars, sockVars, lastStatus>>

(***************************************************************************)
(* calculateBackoffDelay applied to inputs drawn from bounded sets.         *)
(***************************************************************************)
HeaderChars == {"0", "3", "x"}
RECURSIVE StringsUpTo(_)
StringsUpTo(n) ==
    IF n = 0 THEN {<<>>}
    ELSE LET shorter == StringsUpTo(n - 1)
         IN shorter \cup {<<ch>> \o s : ch \in HeaderChars, s \in {t \in shorter : Len(t) = n - 1}}
Headers == {NoHeader} \cup StringsUpTo(MaxHeaderLen)
NotComputed == -3

BkInit ==
    /\ bkAttempt = 0
    /\ bkHeader \in Headers
    /\ bkDelay = NotComputed

\* api.ts:102-106: the delay for a 429 received at retryCount bkAttempt.
ComputeDelay ==
    /\ bkDelay = NotComputed
    /\ bkDelay' = RetryDelay(bkAttempt, bkHeader)
    /\ UNCHANGED <<rtVars, bkAttempt, bkHeader, apiVars, msgVars, sockVars>>

\* api.ts:114: the next attempt (retryCount + 1) receives a 429 with header h.
NextAttempt(h) ==
    /\ bkDelay # NotComputed
    /\ bkAttempt < MaxAttempt
    /\ bkAttempt' = bkAttempt + 1
    /\ bkHeader' = h
    /\ bkDelay' = NotComputed
    /\ UNCHANGED <<rtVars, apiVars, msgVars, sockVars>>

BkIdle == bkAttempt = 0 /\ bkHeader = NoHeader /\ bkDelay = NotComputed

(***************************************************************************)
(* Message reconciliation: handleSendMessage (Messaging.tsx) and the        *)
(* newMessage handler (SocketContext.tsx) on the shared query cache.        *)
(* A cache entry is [cached, list]: cached = FALSE is `undefined`.          *)
(***************************************************************************)
MaxSends == 2
MaxMsgTicks == 1
MaxPushes == 2
MATCH_WINDOW == 5000

Me == "me"
Other == "u2"
ConvIds == {"c1", "c2"}
NewConversationId == "c2"     \* the id createConversation returns
NoConv == "none"
NoUser == "none"
Space == " "
Inputs == {<<>>, <<Space>>, <<"h">>, <<"h", Space>>}
Skews == {MATCH_WINDOW - 1, MATCH_WINDOW}

\* String.prototype.trim
RECURSIVE TrimStart(_)
TrimStart(t) == IF t # <<>> /\ Head(t) = Space THEN TrimStart(Tail(t)) ELSE t
RECURSIVE TrimEnd(_)
TrimEnd(t) ==
    IF t # <<>> /\ t[Len(t)] = Space THEN TrimEnd(SubSeq(t, 1, Len(t) - 1)) ELSE t
Trim(t) == TrimEnd(TrimStart(t))

\* Message ids: `temp-${Date.now()}` (Messaging.tsx:208) or a server id.
TempId(t) == <<"temp-", t>>
ServerId(n) == <<"srv-", n>>
NoId == <<"", 0>>
\* m.id?.startsWith("temp-"), SocketContext.tsx:110
StartsWithTemp(id) == id[1] = "temp-"

NoMessage ==
    [id |-> NoId, conversationId |-> NoConv, senderId |-> NoUser, body |-> <<>>,
     sentAt |-> 0, isRead |-> FALSE, delivered |-> FALSE]
Message(id, conv, sender, body, sentAt) ==
    [id |-> id, conversationId |-> conv, senderId |-> sender, body |-> body,
     sentAt |-> sentAt, isRead |-> FALSE, delivered |-> FALSE]

Abs(x) == IF x < 0 THEN -x ELSE x
Undefined_List == [cached |-> FALSE, list |-> <<>>]
Cached(list) == [cached |-> TRUE, list |-> list]

\* the predicate of SocketContext.tsx:109-114 without the test of line 112
MatchesTemp_AnySender(m, message) ==
    /\ StartsWithTemp(m.id)
    /\ m.body = message.body
    /\ Abs(m.sentAt - message.sentAt) < MATCH_WINDOW

\* SocketContext.tsx:109-114
MatchesTemp(m, message) ==
    /\ StartsWithTemp(m.id)
    /\ m.body = message.body
    /\ m.senderId = message.senderId
    /\ Abs(m.sentAt - message.sentAt) < MATCH_WINDOW

\* the updater of SocketContext.tsx:102-122 without the test of lines 105-106
MergePush_NoExistsTest(old, message) ==
    IF ~old.cached THEN Cached(<<message>>)
    ELSE LET hits == {i \in 1..Len(old.list) : MatchesTemp(old.list[i], message)}
         IN IF hits # {}
            THEN LET tempMessageIndex == CHOOSE i \in hits : \A j \in hits : i <= j
                 IN Cached([old.list EXCEPT ![tempMessageIndex] = message])
            ELSE Cached(Append(old.list, message))

\* SocketContext.tsx:102-122: the updater of ["messages", conversationId]
MergePush(old, message) ==
    IF ~old.cached THEN Cached(<<message>>)
    ELSE IF \E i \in 1..Len(old.list) : old.list[i].id = message.id THEN old
    ELSE LET hits == {i \in 1..Len(old.list) : MatchesTemp(old.list[i], message)}
         IN IF hits # {}
            THEN LET tempMessageIndex == CHOOSE i \in hits : \A j \in hits : i <= j
                 IN Cached([old.list EXCEPT ![tempMessageIndex] = message])
            ELSE Cached(Append(old.list, message))

\* SocketContext.tsx:125-137, Messaging.tsx:227-239 and 253-265: the updater of
\* ["conversations"] that points the conversation's preview at message
SetPreview(old, conv, message) ==
    IF ~old.cached THEN old
    ELSE [old EXCEPT !.list =
             [c \in DOMAIN old.list |->
                 IF c = conv
                 THEN [old.list[c] EXCEPT !.lastMessage = message,
                                          !.updatedAt = message.sentAt]
                 ELSE old.list[c]]]

\* Messaging.tsx:222-224
AddOptimistic(old, optimisticMessage) ==
    IF old.cached THEN Cached(Append(old.list, optimisticMessage))
    ELSE Cached(<<optimisticMessage>>)

\* the updater of Messaging.tsx:245-250 filtering the server id only
ReplaceOptimistic_KeepTemp(old, tempMessageId, sentMessage) ==
    IF ~old.cached THEN Cached(<<sentMessage>>)
    ELSE LET Keep(m) == m.id # sentMessage.id
         IN Cached(Append(SelectSeq(old.list, Keep), sentMessage))

\* the updater of Messaging.tsx:245-250 filtering the temporary id only
ReplaceOptimistic_TempOnly(old, tempMessageId, sentMessage) ==
    IF ~old.cached THEN Cached(<<sentMessage>>)
    ELSE LET Keep(m) == m.id # tempMessageId
         IN Cached(Append(SelectSeq(old.list, Keep), sentMessage))

\* Messaging.tsx:245-250
ReplaceOptimistic(old, tempMessageId, sentMessage) ==
    IF ~old.cached THEN Cached(<<sentMessage>>)
    ELSE LET Keep(m) == m.id # tempMessageId /\ m.id # sentMessage.id
         IN Cached(Append(SelectSeq(old.list, Keep), sentMessage))

\* the catch branch without the removal of lines 277-279
RemoveOptimistic_NoOp(old, tempMessageId) == old

\* Messaging.tsx:277-279
RemoveOptimistic(old, tempMessageId) ==
    IF old.cached
    THEN LET Keep(m) == m.id # tempMessageId IN Cached(SelectSeq(old.list, Keep))
    ELSE old

\* Messaging.tsx:282-298, with messages the list left by RemoveOptimistic
RevertPreview(old, conv, tempMessageId, messages) ==
    IF ~old.cached THEN old
    ELSE [old EXCEPT !.list =
             [c \in DOMAIN old.list |->
                 IF c = conv /\ old.list[c].lastMessage.id = tempMessageId
                 THEN LET list == IF messages.cached THEN messages.list ELSE <<>>
                          previousLastMessage ==
                              IF Len(list) > 0 THEN list[Len(list)] ELSE NoMessage
                      IN [old.list[c] EXCEPT !.lastMessage =
                             IF previousLastMessage # NoMessage
                             THEN previousLastMessage ELSE old.list[c].lastMessage]
                 ELSE old.list[c]]]

Sends == 1..MaxSends
NoSend ==
    [phase |-> "idle", typed |-> <<>>, conv |-> NoConv, body |-> <<>>, tempId |-> NoId,
     sentAt |-> 0, request |-> "none", root |-> 0]
\* the send whose request promise send s awaits
Root(s) == sends[s].root
SendKey(conv, body) == <<conv, body>>
SendKeys == {SendKey(c, Trim(i)) : c \in ConvIds, i \in Inputs}
Idle(s) == sends[s].phase = "idle"
NextSend == CHOOSE s \in Sends : Idle(s) /\ \A t \in Sends : Idle(t) => s <= t

\* Messaging.tsx:207-242: the optimistic insert and the call of sendMessage.  The
\* call returns the pending promise of an identical request (api.ts:69-71), or
\* goes on to issue its own (after the throttle delay, if any).
Optimistic(s, typed, convId, messageBody) ==
    LET tempMessageId == TempId(msgClock)
        optimisticMessage == Message(tempMessageId, convId, Me, messageBody, msgClock)
        key == SendKey(convId, messageBody)
        shared == pendingSend[key]
    IN /\ messagesCache' = [messagesCache EXCEPT
                               ![convId] = AddOptimistic(@, optimisticMessage)]
       /\ conversationsCache' = SetPreview(conversationsCache, convId, optimisticMessage)
       /\ sends' = [sends EXCEPT ![s] =
              [phase |-> "awaiting", typed |-> typed, conv |-> convId, body |-> messageBody,
               tempId |-> tempMessageId, sentAt |-> msgClock,
               request |-> IF shared # 0 THEN "shared" ELSE "queued",
               root |-> IF shared # 0 THEN shared ELSE s]]

\* Messaging.tsx:184-242: the form is submitted.
HandleSendMessage ==
    /\ \E s \in Sends : Idle(s)
    /\ Trim(messageInput) # <<>>
    /\ LET s == NextSend
           messageBody == Trim(messageInput)
           convId == selectedConversationId
       IN /\ messageInput' = <<>>
          /\ IF convId = NoConv /\ selectedRecipient # NoUser
             THEN /\ sends' = [sends EXCEPT ![s] =
                         [NoSend EXCEPT !.phase = "creating", !.typed = messageInput,
                                        !.body = messageBody]]
                  /\ UNCHANGED <<messagesCache, conversationsCache>>
             ELSE IF convId = NoConv
             THEN /\ sends' = [sends EXCEPT ![s] =
                         [NoSend EXCEPT !.phase = "returned", !.typed = messageInput,
                                        !.body = messageBody]]
                  /\ UNCHANGED <<messagesCache, conversationsCache>>
             ELSE Optimistic(s, messageInput, convId, messageBody)
    /\ UNCHANGED <<rtVars, msgClock, selectedConversationId, selectedRecipient, pendingSend,
                   serverMessages, pushes, apiVars, bkVars, sockVars>>

\* Messaging.tsx:197-242: createConversation resolved.
ConversationCreated(s) ==
    /\ sends[s].phase = "creating"
    /\ selectedConversationId' = NewConversationId
    /\ selectedRecipient' = NoUser
    /\ Optimistic(s, sends[s].typed, NewConversationId, sends[s].body)
    /\ UNCHANGED <<rtVars, msgClock, messageInput, pendingSend, serverMessages, pushes,
                   apiVars, bkVars, sockVars>>

\* Messaging.tsx:197, 273-302: createConversation rejected; convId is still null.
ConversationFailed(s) ==
    /\ sends[s].phase = "creating"
    /\ sends' = [sends EXCEPT ![s].phase = "failed"]
    /\ messageInput' = sends[s].body
    /\ UNCHANGED <<rtVars, msgClock, selectedConversationId, selectedRecipient, messagesCache,
                   conversationsCache, pendingSend, serverMessages, pushes,
                   apiVars, bkVars, sockVars>>

\* api.ts:73-98, 177: the send-message request is issued and its entry stored.
IssueSend(s) ==
    /\ sends[s].phase = "awaiting"
    /\ sends[s].request = "queued"
    /\ sends' = [sends EXCEPT ![s].request = "issued"]
    /\ pendingSend' = [pendingSend EXCEPT ![SendKey(sends[s].conv, sends[s].body)] = s]
    /\ UNCHANGED <<rtVars, msgClock, messageInput, selectedConversationId, selectedRecipient,
                   messagesCache, conversationsCache, serverMessages, pushes,
                   apiVars, bkVars, sockVars>>

\* The server stores the message of request s, with its own timestamp.
ServerStores(s, skew) ==
    /\ sends[s].request = "issued"
    /\ serverMessages[s] = NoMessage
    /\ serverMessages' = [serverMessages EXCEPT ![s] =
           Message(ServerId(s), sends[s].conv, Me, sends[s].body, sends[s].sentAt + skew)]
    /\ UNCHANGED <<rtVars, msgClock, messageInput, selectedConversationId, selectedRecipient,
                   messagesCache, conversationsCache, sends, pendingSend, pushes,
                   apiVars, bkVars, sockVars>>

\* The sends whose handleSendMessage awaits the promise of request r, in call order.
Awaiting(r) == {s \in Sends : sends[s].phase = "awaiting" /\ Root(s) = r}

\* Messaging.tsx:242-265: the continuations of the sends in todo after the request
\* resolved with sentMessage, applied to the caches mc and cc.
RECURSIVE Confirmed(_, _, _, _)
Confirmed(todo, sentMessage, mc, cc) ==
    IF todo = {} THEN [messages |-> mc, conversations |-> cc]
    ELSE LET s == CHOOSE x \in todo : \A y \in todo : x <= y
             convId == sends[s].conv
         IN Confirmed(todo \ {s}, sentMessage,
                      [mc EXCEPT ![convId] =
                          ReplaceOptimistic(@, sends[s].tempId, sentMessage)],
                      SetPreview(cc, convId, sentMessage))

\* Messaging.tsx:273-302: the continuations of the sends in todo after the request
\* rejected.
RECURSIVE Failed(_, _, _, _)
Failed(todo, mc, cc, input) ==
    IF todo = {} THEN [messages |-> mc, conversations |-> cc, input |-> input]
    ELSE LET s == CHOOSE x \in todo : \A y \in todo : x <= y
             convId == sends[s].conv
             removed == [mc EXCEPT ![convId] = RemoveOptimistic(@, sends[s].tempId)]
         IN Failed(todo \ {s}, removed,
                   RevertPreview(cc, convId, sends[s].tempId, removed[convId]),
                   sends[s].body)

ReleaseEntry(r) ==
    LET key == SendKey(sends[r].conv, sends[r].body)
    IN pendingSend' = [pendingSend EXCEPT ![key] = 0]

\* The response of request r arrives: 2xx with the stored message.
SendResolved(r) ==
    /\ sends[r].request = "issued"
    /\ serverMessages[r] # NoMessage
    /\ LET done == Confirmed(Awaiting(r), serverMessages[r], messagesCache,
                             conversationsCache)
       IN /\ messagesCache' = done.messages
          /\ conversationsCache' = done.conversations
    /\ sends' = [s \in Sends |->
                    IF s \in Awaiting(r)
                    THEN [sends[s] EXCEPT !.phase = "confirmed", !.request = "done"]
                    ELSE IF s = r THEN [sends[s] EXCEPT !.request = "done"]
                    ELSE sends[s]]
    /\ ReleaseEntry(r)
    /\ UNCHANGED <<rtVars, msgClock, messageInput, selectedConversationId, selectedRecipient,
                   serverMessages, pushes, apiVars, bkVars, sockVars>>

\* The request r fails: fetch rejects or the response is an error, whether or not the
\* server stored the message.
SendRejected(r) ==
    /\ sends[r].request = "issued"
    /\ LET done == Failed(Awaiting(r), messagesCache, conversationsCache, messageInput)
       IN /\ messagesCache' = done.messages
          /\ conversationsCache' = done.conversations
          /\ messageInput' = done.input
    /\ sends' = [s \in Sends |->
                    IF s \in Awaiting(r)
                    THEN [sends[s] EXCEPT !.phase = "failed", !.request = "done"]
                    ELSE IF s = r THEN [sends[s] EXCEPT !.request = "done"]
                    ELSE sends[s]]
    /\ ReleaseEntry(r)
    /\ UNCHANGED <<rtVars, msgClock, selectedConversationId, selectedRecipient,
                   serverMessages, pushes, apiVars, bkVars, sockVars>>

\* SocketContext.tsx:99-149: a newMessage push of a stored message is delivered.
NewMessage(n) ==
    /\ serverMessages[n] # NoMessage
    /\ pushes[n] < MaxPushes
    /\ pushes' = [pushes EXCEPT ![n] = @ + 1]
    /\ LET message == serverMessages[n]
       IN /\ messagesCache' = [messagesCache EXCEPT
                                  ![message.conversationId] = MergePush(@, message)]
          /\ conversationsCache' =
                 SetPreview(conversationsCache, message.conversationId, message)
    /\ UNCHANGED <<rtVars, msgClock, messageInput, selectedConversationId, selectedRecipient,
                   sends, pendingSend, serverMessages, apiVars, bkVars, sockVars>>

\* Messaging.tsx:690: the user edits the compose box.  Edits that no later submit
\* can read are left out.
SetMessageInput(text) ==
    /\ \E s \in Sends : Idle(s)
    /\ messageInput # text
    /\ messageInput' = text
    /\ UNCHANGED <<rtVars, msgClock, selectedConversationId, selectedRecipient, messagesCache,
                   conversationsCache, sends, pendingSend, serverMessages, pushes,
                   apiVars, bkVars, sockVars>>

MsgTick ==
    /\ msgClock < StartTime + MaxMsgTicks
    /\ msgClock' = msgClock + 1
    /\ UNCHANGED <<rtVars, messageInput, selectedConversationId, selectedRecipient, messagesCache,
                   conversationsCache, sends, pendingSend, serverMessages, pushes,
                   apiVars, bkVars, sockVars>>

\* A message of the peer that the server stored just before the page was loaded: the
\* fetched list holds it, and its newMessage push may still arrive, once or twice.
OldMessage == Message(ServerId(0), "c1", Other, <<"h">>, StartTime)
\* The ids of the messages the server stores: the old one and one per request.
Stored == 0..MaxSends

\* The messaging page: a conversation is open, or a recipient picked for a new one;
\* each cache is fetched or not, and a fetched conversation holds the old message.
MsgInit ==
    /\ msgClock = StartTime
    /\ messageInput = <<>>
    /\ \E open \in BOOLEAN, fetched \in BOOLEAN, listed \in BOOLEAN :
          /\ selectedConversationId = IF open THEN "c1" ELSE NoConv
          /\ selectedRecipient = IF open THEN NoUser ELSE Other
          /\ messagesCache =
                 [c \in ConvIds |->
                     IF c = "c1" /\ fetched
                     THEN Cached(<<OldMessage>>)
                     ELSE Undefined_List]
          /\ conversationsCache =
                 IF listed
                 THEN [cached |-> TRUE,
                       list |-> [c \in {"c1"} |->
                                    [lastMessage |-> OldMessage,
                                     updatedAt |-> OldMessage.sentAt]]]
                 ELSE [cached |-> FALSE, list |-> <<>>]
    /\ sends = [s \in Sends |-> NoSend]
    /\ pendingSend = [k \in SendKeys |-> 0]
    /\ serverMessages = [n \in Stored |-> IF n = 0 THEN OldMessage ELSE NoMessage]
    /\ pushes = [n \in Stored |-> 0]

MsgIdle ==
    /\ msgClock = StartTime
    /\ messageInput = <<>>
    /\ selectedConversationId = NoConv
    /\ selectedRecipient = NoUser
    /\ messagesCache = [c \in ConvIds |-> Undefined_List]
    /\ conversationsCache = [cached |-> FALSE, list |-> <<>>]
    /\ sends = [s \in Sends |-> NoSend]
    /\ pendingSend = [k \in SendKeys |-> 0]
    /\ serverMessages = [n \in Stored |-> NoMessage]
    /\ pushes = [n \in Stored |-> 0]

MsgNext ==
    \/ HandleSendMessage
    \/ \E s \in Sends : ConversationCreated(s)
    \/ \E s \in Sends : ConversationFailed(s)
    \/ \E s \in Sends : IssueSend(s)
    \/ \E s \in Sends, k \in Skews : ServerStores(s, k)
    \/ \E s \in Sends : SendResolved(s)
    \/ \E s \in Sends : SendRejected(s)
    \/ \E n \in Stored : NewMessage(n)
    \/ \E i \in Inputs : SetMessageInput(i)
    \/ MsgTick

(***************************************************************************)
(* The session and the socket: AuthProvider (AuthContext.tsx) and the       *)
(* effect of SocketProvider (SocketContext.tsx:73-242).  A change of        *)
(* authState is followed by the render and the effects it causes, so each   *)
(* action ends with the effect.                                             *)
(***************************************************************************)
MaxUsers == 3
MaxReloads == 1
MaxSocketCalls == 1

NoUserObject == 0
NoSocket == 0
NoToken == ""
SavedToken == "t1"
\* the token of a login response; a response without one stores an item without one
LoginTokens == {"t2", NoToken}
NoVerify == [phase |-> "none", token |-> NoToken]

gatewayVars == <<clock, ticks, ncalls, pendingRequests, rateLimitState, requestThrottle,
                 req, pc, retryCount, now, deadline, joined, result, fetches,
                 lastStatus>>

\* SocketContext.tsx:77-79, on the session store as it will be
TokenOf(item, token) == IF item THEN token ELSE NoToken

\* the effect of SocketContext.tsx:73-242 with a cleanup that only nulls the state
SocketEffect_NoDisconnect(user, loading, item, token) ==
    IF user = authUser THEN UNCHANGED <<socket, live, opened>>
    ELSE IF loading \/ user = NoUserObject \/ TokenOf(item, token) = NoToken
         THEN /\ socket' = NoSocket
              /\ UNCHANGED <<live, opened>>
         ELSE /\ opened' = opened + 1
              /\ socket' = opened + 1
              /\ live' = live \cup {[id |-> opened + 1, token |-> TokenOf(item, token)]}

\* SocketContext.tsx:73-88, 238-242: the effect after a render with these values.
\* It runs when `user` changed: the cleanup of the previous run disconnects the
\* socket that run opened and nulls the state; then the body connects, or returns.
SocketEffect(user, loading, item, token) ==
    IF user = authUser THEN UNCHANGED <<socket, live, opened>>
    ELSE LET cleaned == {c \in live : c.id # socket}
         IN IF loading \/ user = NoUserObject \/ TokenOf(item, token) = NoToken
            THEN /\ socket' = NoSocket
                 /\ live' = cleaned
                 /\ opened' = opened
            ELSE /\ opened' = opened + 1
                 /\ socket' = opened + 1
                 /\ live' = cleaned \cup {[id |-> opened + 1, token |-> TokenOf(item, token)]}

\* setAuthState followed by the render
SetAuthState(user, loading, item, token) ==
    /\ authUser' = user
    /\ authLoading' = loading
    /\ storedUser' = item
    /\ storedToken' = token
    /\ SocketEffect(user, loading, item, token)

\* AuthContext.tsx:42-124: initAuth on the mount of AuthProvider.
InitAuth ==
    /\ page = "mounting"
    /\ page' = "ready"
    /\ IF storedUser
       THEN /\ users < MaxUsers
            /\ users' = users + 1
            /\ SetAuthState(users + 1, FALSE, storedUser, storedToken)
            /\ verify' = [phase |-> "timer", token |-> storedToken]
       ELSE /\ SetAuthState(NoUserObject, FALSE, storedUser, storedToken)
            /\ UNCHANGED <<users, verify>>
    /\ UNCHANGED <<rtVars, loginCall, updateCall, reloads, expiredSignals, redirects,
                   gatewayVars, bkVars, msgVars>>

\* AuthContext.tsx:63-67: the 500 ms timer fires and getCurrentUser is called.
VerifyTimer ==
    /\ verify.phase = "timer"
    /\ verify' = [verify EXCEPT !.phase = "inflight"]
    /\ UNCHANGED <<rtVars, page, authUser, authLoading, users, storedToken, loginCall, updateCall,
                   socket, live, opened, reloads, apiVars, bkVars, msgVars>>

\* AuthContext.tsx:67-77: getCurrentUser resolved.
VerifyResolved ==
    /\ verify.phase = "inflight"
    /\ users < MaxUsers
    /\ users' = users + 1
    /\ verify' = NoVerify
    /\ SetAuthState(users + 1, FALSE, TRUE, verify.token)
    /\ UNCHANGED <<rtVars, page, loginCall, updateCall, reloads, expiredSignals, redirects,
                   gatewayVars, bkVars, msgVars>>

\* AuthContext.tsx:78-95: getCurrentUser rejected; with a 401 the gateway has
\* broadcast and scheduled the redirect (api.ts:139-151) and the handler broadcasts too.
VerifyRejected(unauthorized) ==
    /\ verify.phase = "inflight"
    /\ verify' = NoVerify
    /\ SetAuthState(NoUserObject, FALSE, FALSE, storedToken)
    /\ IF unauthorized
       THEN /\ expiredSignals' = expiredSignals + 2
            /\ redirects' = redirects + 1
       ELSE UNCHANGED <<expiredSignals, redirects>>
    /\ UNCHANGED <<rtVars, page, users, loginCall, updateCall, reloads, gatewayVars, bkVars, msgVars>>

\* AuthContext.tsx:126-130: login is called.
LoginStart ==
    /\ page = "ready"
    /\ loginCall = "idle"
    /\ loginCall' = "inflight"
    /\ SetAuthState(authUser, TRUE, storedUser, storedToken)
    /\ UNCHANGED <<rtVars, page, users, verify, updateCall, reloads, expiredSignals, redirects,
                   gatewayVars, bkVars, msgVars>>

\* AuthContext.tsx:130-140: the login call resolved.
LoginResolved(token) ==
    /\ loginCall = "inflight"
    /\ users < MaxUsers
    /\ users' = users + 1
    /\ loginCall' = "idle"
    /\ SetAuthState(users + 1, FALSE, TRUE, token)
    /\ UNCHANGED <<rtVars, page, verify, updateCall, reloads, expiredSignals, redirects,
                   gatewayVars, bkVars, msgVars>>

\* AuthContext.tsx:141-145: the login call rejected.
LoginRejected ==
    /\ loginCall = "inflight"
    /\ loginCall' = "idle"
    /\ SetAuthState(authUser, FALSE, storedUser, storedToken)
    /\ UNCHANGED <<rtVars, page, users, verify, updateCall, reloads, expiredSignals, redirects,
                   gatewayVars, bkVars, msgVars>>

\* AuthContext.tsx:148-170
Logout ==
    /\ page = "ready"
    /\ SetAuthState(NoUserObject, FALSE, FALSE, storedToken)
    /\ UNCHANGED <<rtVars, page, users, verify, loginCall, updateCall, reloads, expiredSignals,
                   redirects, gatewayVars, bkVars, msgVars>>

\* AuthContext.tsx:199-206: updateProfile is called.
UpdateStart ==
    /\ page = "ready"
    /\ authUser # NoUserObject
    /\ updateCall = "idle"
    /\ updateCall' = "inflight"
    /\ UNCHANGED <<rtVars, page, authUser, authLoading, users, storedToken, verify, loginCall,
                   socket, live, opened, reloads, apiVars, bkVars, msgVars>>

\* AuthContext.tsx:208-220: the update resolved; the item is stored again with the
\* token it has now, none if the item is gone.
UpdateResolved ==
    /\ updateCall = "inflight"
    /\ users < MaxUsers
    /\ users' = users + 1
    /\ updateCall' = "idle"
    /\ SetAuthState(users + 1, authLoading, TRUE, TokenOf(storedUser, storedToken))
    /\ UNCHANGED <<rtVars, page, verify, loginCall, reloads, expiredSignals, redirects,
                   gatewayVars, bkVars, msgVars>>

\* AuthContext.tsx:221-223
UpdateRejected ==
    /\ updateCall = "inflight"
    /\ updateCall' = "idle"
    /\ UNCHANGED <<rtVars, page, authUser, authLoading, users, storedToken, verify, loginCall,
                   socket, live, opened, reloads, apiVars, bkVars, msgVars>>

\* api.ts:148-150: the scheduled redirect loads the login page: the document, its
\* connections, its timers and the module state of api.ts are gone.
Reload ==
    /\ redirects > 0
    /\ reloads < MaxReloads
    /\ reloads' = reloads + 1
    /\ page' = "mounting"
    /\ authUser' = NoUserObject
    /\ authLoading' = TRUE
    /\ verify' = NoVerify
    /\ loginCall' = "idle"
    /\ updateCall' = "idle"
    /\ socket' = NoSocket
    /\ live' = {}
    /\ redirects' = 0
    /\ expiredSignals' = 0
    /\ pendingRequests' = [k \in Keys |-> NoPromise]
    /\ rateLimitState' = [retryAfter |-> 0, last429Time |-> 0]
    /\ requestThrottle' = [e \in Endpoints |-> 0]
    /\ pc' = [c \in Calls |-> IF pc[c] \in {"idle", "settled"} THEN pc[c] ELSE "aborted"]
    /\ UNCHANGED <<rtVars, users, storedToken, opened, storedUser, clock, ticks, ncalls, req,
                   retryCount, now, deadline, joined, result, fetches, lastStatus,
                   bkVars, msgVars>>

\* The page loads with a stored session.
SockInit ==
    /\ page = "mounting"
    /\ authUser = NoUserObject
    /\ authLoading = TRUE
    /\ users = 0
    /\ storedToken = SavedToken
    /\ verify = NoVerify
    /\ loginCall = "idle"
    /\ updateCall = "idle"
    /\ socket = NoSocket
    /\ live = {}
    /\ opened = 0
    /\ reloads = 0

\* No provider is mounted.
SockIdle ==
    /\ page = "none"
    /\ authUser = NoUserObject
    /\ authLoading = TRUE
    /\ users = 0
    /\ storedToken = SavedToken
    /\ verify = NoVerify
    /\ loginCall = "idle"
    /\ updateCall = "idle"
    /\ socket = NoSocket
    /\ live = {}
    /\ opened = 0
    /\ reloads = 0

SocketNext ==
    \/ InitAuth
    \/ VerifyTimer
    \/ VerifyResolved
    \/ \E unauthorized \in BOOLEAN : VerifyRejected(unauthorized)
    \/ LoginStart
    \/ \E token \in LoginTokens : LoginResolved(token)
    \/ LoginRejected
    \/ Logout
    \/ UpdateStart
    \/ UpdateResolved
    \/ UpdateRejected
    \/ Reload
    \/ \E q \in SessionRequests : Call(q, MaxSocketCalls)
    \/ \E c \in Calls : FetchRejects(c)
    \/ \E c \in Calls : RespondOk(c)
    \/ \E c \in Calls, parsed \in BOOLEAN : JsonDone(c, parsed)
    \/ \E c \in Calls, s \in ErrorStatuses, b \in ApiBodies : RespondError(c, s, b)

\* SocketContext.tsx:204-209, the updater of messageDelivered
MarkDelivered(old, messageId) ==
    IF ~old.cached THEN old
    ELSE Cached([i \in DOMAIN old.list |->
                    IF old.list[i].id = messageId
                    THEN [old.list[i] EXCEPT !.delivered = TRUE]
                    ELSE old.list[i]])

\* SocketContext.tsx:174-179, the updater of messagesRead
MarkRead(old, userId) ==
    IF ~old.cached THEN old
    ELSE Cached([i \in DOMAIN old.list |->
                    IF old.list[i].senderId # userId
                    THEN [old.list[i] EXCEPT !.isRead = TRUE]
                    ELSE old.list[i]])

\* s.on("messageDelivered") for the stored message n
MessageDelivered(n) ==
    /\ serverMessages[n] # NoMessage
    /\ serverMessages[n].senderId = Me
    /\ messagesCache' = [messagesCache EXCEPT ![serverMessages[n].conversationId] =
                            MarkDelivered(@, serverMessages[n].id)]
    /\ UNCHANGED <<rtVars, msgClock, messageInput, selectedConversationId,
                   selectedRecipient, conversationsCache, sends, pendingSend,
                   serverMessages, pushes, apiVars, bkVars, sockVars>>

\* s.on("messagesRead"): userId read the conversation
MessagesRead(conversationId, userId) ==
    /\ messagesCache' = [messagesCache EXCEPT ![conversationId] = MarkRead(@, userId)]
    /\ UNCHANGED <<rtVars, msgClock, messageInput, selectedConversationId,
                   selectedRecipient, conversationsCache, sends, pendingSend,
                   serverMessages, pushes, apiVars, bkVars, sockVars>>

\* The messaging page with the receipts of the peer.
ReceiptsNext ==
    \/ HandleSendMessage
    \/ \E s \in Sends : IssueSend(s)
    \/ \E s \in Sends : ServerStores(s, MATCH_WINDOW - 1)
    \/ \E s \in Sends : SendResolved(s)
    \/ \E s \in Sends : SendRejected(s)
    \/ \E n \in Stored : NewMessage(n)
    \/ \E i \in Inputs : SetMessageInput(i)
    \/ \E n \in Stored : MessageDelivered(n)
    \/ \E c \in {"c1"}, u \in {Me, Other} : MessagesRead(c, u)

(***************************************************************************)
(* The socket provider's inbound events, the typing indicator of the       *)
(* compose box, and the server's createNotification.                       *)
(***************************************************************************)
MaxShown == 3
MaxTypingTrue == 3
MaxTargets == 2

Third == "u3"
UserIds == {Me, Other, Third}
NoEntries == [u \in {} |-> FALSE]      \* the object {}

\* SocketContext.tsx:254-257: the typing emissions after sendTyping(conversationId, typing)
sendTyping(conversationId, typing) ==
    IF socket = NoSocket \/ conversationId = NoConv
    THEN UNCHANGED <<lastTyping, typingTrue>>
    ELSE /\ lastTyping' = [lastTyping EXCEPT ![conversationId] =
                              IF typing THEN "on" ELSE "off"]
         /\ typingTrue' = IF typing THEN typingTrue + 1 ELSE typingTrue

\* Messaging.tsx:156-182: the effect after a render in which messageInput,
\* selectedConversationId or sendTyping changed.  The cleanup of the previous
\* run and lines 157-159 clear the timer; the body arms a new one or not.
TypingEffect(input, conversationId) ==
    LET typing == Trim(input) # <<>> /\ conversationId # NoConv
    IN /\ (typing /\ socket # NoSocket) => typingTrue < MaxTypingTrue
       /\ isTyping' = typing
       /\ typingTimeout' = IF typing THEN conversationId ELSE NoConv
       /\ sendTyping(conversationId, typing)
       /\ UNCHANGED mounted

\* SocketContext.tsx:264-275: a state change of the provider makes a new context
\* value whose sendTyping is a new function; a mounted messaging view re-runs
\* its typing effect.
ProviderRendered ==
    IF mounted THEN TypingEffect(messageInput, selectedConversationId)
    ELSE UNCHANGED typVars

\* Messaging.tsx:34-44: the view mounts, `conversation` being the URL parameter
Mount(conversation) ==
    /\ ~mounted
    /\ mounted' = TRUE
    /\ messageInput' = <<>>
    /\ selectedConversationId' = conversation
    /\ selectedRecipient' = NoUser
    /\ isTyping' = FALSE
    /\ typingTimeout' = NoConv
    /\ sendTyping(conversation, FALSE)
    /\ UNCHANGED <<msgClock, messagesCache, conversationsCache, sends, pendingSend,
                   serverMessages, pushes>>
    /\ UNCHANGED <<apiVars, bkVars, sockVars, ctxVars, ntVars>>

\* Messaging.tsx:690: onChange of the compose box, and the effect
Edit(text) ==
    /\ mounted
    /\ text # messageInput
    /\ messageInput' = text
    /\ TypingEffect(text, selectedConversationId)
    /\ UNCHANGED <<msgClock, selectedConversationId, selectedRecipient, messagesCache,
                   conversationsCache, sends, pendingSend, serverMessages, pushes>>
    /\ UNCHANGED <<apiVars, bkVars, sockVars, ctxVars, ntVars>>

\* Messaging.tsx:431-434: a conversation of the list is clicked
SelectConversation(conversation) ==
    /\ mounted
    /\ selectedConversationId' = conversation
    /\ selectedRecipient' = NoUser
    /\ IF conversation # selectedConversationId
       THEN TypingEffect(messageInput, conversation)
       ELSE UNCHANGED typVars
    /\ UNCHANGED <<msgClock, messageInput, messagesCache, conversationsCache, sends,
                   pendingSend, serverMessages, pushes>>
    /\ UNCHANGED <<apiVars, bkVars, sockVars, ctxVars, ntVars>>

\* Messaging.tsx:166-169: the timer fires
TypingTimeout ==
    /\ mounted
    /\ typingTimeout # NoConv
    /\ isTyping' = FALSE
    /\ sendTyping(typingTimeout, FALSE)
    /\ typingTimeout' = NoConv
    /\ UNCHANGED mounted
    /\ UNCHANGED <<apiVars, bkVars, msgVars, sockVars, ctxVars, ntVars>>

\* Messaging.tsx:177-181: the view unmounts; the cleanup clears the timer
Unmount ==
    /\ mounted
    /\ mounted' = FALSE
    /\ isTyping' = FALSE
    /\ typingTimeout' = NoConv
    /\ UNCHANGED <<lastTyping, typingTrue>>
    /\ UNCHANGED <<apiVars, bkVars, msgVars, sockVars, ctxVars, ntVars>>

\* { ...prev, [userId]: online }, without the spread
PresenceUpdate_NoSpread(prev, userId, online) ==
    [u \in {userId} |-> online]

\* SocketContext.tsx:96: { ...prev, [userId]: online }
PresenceUpdate(prev, userId, online) ==
    [u \in DOMAIN prev \cup {userId} |-> IF u = userId THEN online ELSE prev[u]]

\* s.on("presence")
Presence(userId, online) ==
    /\ socket # NoSocket
    /\ onlineUsers' = PresenceUpdate(onlineUsers, userId, online)
    /\ ProviderRendered
    /\ UNCHANGED <<typingStatus, notifications, permission, shown>>
    /\ UNCHANGED <<apiVars, bkVars, msgVars, sockVars, ntVars>>

\* copy[conversationId] after the handler's add or delete
TypingSet(prev, conversationId, userId, typing) ==
    LET old == IF conversationId \in DOMAIN prev THEN prev[conversationId] ELSE {}
    IN IF typing THEN old \cup {userId} ELSE old \ {userId}

\* SocketContext.tsx:189-195, the updater of setTypingStatus
TypingUpdate(prev, conversationId, userId, typing) ==
    [c \in DOMAIN prev \cup {conversationId} |->
        IF c = conversationId THEN TypingSet(prev, conversationId, userId, typing)
        ELSE prev[c]]

\* s.on("typing")
Typing(conversationId, userId, typing) ==
    /\ socket # NoSocket
    /\ typingStatus' = TypingUpdate(typingStatus, conversationId, userId, typing)
    /\ ProviderRendered
    /\ UNCHANGED <<onlineUsers, notifications, permission, shown>>
    /\ UNCHANGED <<apiVars, bkVars, msgVars, sockVars, ntVars>>

\* Notifications: the payload's message and excerpt are "" when absent.
NoText == ""
Notification(id, userId, type, message, excerpt) ==
    [id |-> id, userId |-> userId, type |-> type, message |-> message,
     excerpt |-> excerpt]
NotificationIds == {"n1", "n2", "n3", "n4"}
\* what the server stored under each id
NotificationOf(id) ==
    CASE id = "n1" -> Notification(id, Me, "message", NoText, "e")
      [] id = "n2" -> Notification(id, Me, "new_booking", "m", NoText)
      [] id = "n3" -> Notification(id, Other, "message", NoText, NoText)
      [] OTHER     -> Notification(id, NoText, "conversation", NoText, NoText)

\* SocketContext.tsx:15-40
getNotificationMessage(notification) ==
    CASE notification.type = "message" ->
            OrElse(notification.excerpt, "You have a new message")
      [] notification.type = "new_booking" ->
            OrElse(notification.message, "You have a new booking")
      [] notification.type = "conversation" -> "You have a new conversation"
      [] OTHER -> "You have a new notification"

\* the updater of lines 219-226 without the test of lines 222-223
NotificationsUpdate_NoExistsTest(old, notification) ==
    IF ~old.cached THEN Cached(<<notification>>)
    ELSE Cached(<<notification>> \o old.list)

\* SocketContext.tsx:219-226, the updater of the notifications query data
NotificationsUpdate(old, notification) ==
    IF ~old.cached THEN Cached(<<notification>>)
    ELSE IF \E i \in DOMAIN old.list : old.list[i].id = notification.id THEN old
    ELSE Cached(<<notification>> \o old.list)

\* s.on("newNotification"); userId is the id of the signed-in user, Me
NewNotification(notification) ==
    /\ socket # NoSocket
    /\ permission = "granted" => Len(shown) < MaxShown
    /\ IF notification.userId = NoText \/ notification.userId # Me
       THEN UNCHANGED <<notifications, shown>>
       ELSE /\ notifications' = NotificationsUpdate(notifications, notification)
            /\ shown' = IF permission = "granted"
                        THEN Append(shown, OrElse(notification.message,
                                                  getNotificationMessage(notification)))
                        ELSE shown
    /\ UNCHANGED <<onlineUsers, typingStatus, permission>>
    /\ UNCHANGED <<apiVars, bkVars, msgVars, sockVars, typVars, ntVars>>

\* SocketContext.tsx:65-71: the user answers the permission request made on mount
PermissionAnswered(answer) ==
    /\ permission = "default"
    /\ permission' = answer
    /\ UNCHANGED <<onlineUsers, typingStatus, notifications, shown>>
    /\ UNCHANGED <<apiVars, bkVars, msgVars, sockVars, typVars, ntVars>>

\* The user is signed in and the provider's socket is connected.
SockConnected ==
    /\ page = "ready"
    /\ authUser = 1
    /\ authLoading = FALSE
    /\ users = 1
    /\ storedToken = SavedToken
    /\ verify = NoVerify
    /\ loginCall = "idle"
    /\ updateCall = "idle"
    /\ socket = 1
    /\ live = {[id |-> 1, token |-> SavedToken]}
    /\ opened = 1
    /\ reloads = 0

TypingUsers == {Other, Third}

\* The compose box of the messaging view, and presence events.
TypingNext ==
    \/ \E c \in ConvIds \cup {NoConv} : Mount(c)
    \/ \E text \in Inputs : Edit(text)
    \/ \E c \in ConvIds : SelectConversation(c)
    \/ TypingTimeout
    \/ Unmount
    \/ \E u \in {Other}, online \in BOOLEAN : Presence(u, online)

RealtimeNext ==
    \/ \E u \in UserIds, online \in BOOLEAN : Presence(u, online)
    \/ \E c \in ConvIds, u \in TypingUsers, typing \in BOOLEAN : Typing(c, u, typing)
    \/ \E id \in NotificationIds : NewNotification(NotificationOf(id))
    \/ \E answer \in {"granted", "denied"} : PermissionAnswered(answer)

\* ---- createNotification (backend/utils/notifications.js) ----
SocketIds == {1, 2, 3}
\* the user each socket authenticated as
SocketUser(s) == IF s = 3 THEN Other ELSE Me
Targets == {Me, Other}
TargetLists == UNION {[1..n -> Targets] : n \in 1..MaxTargets}

\* getIO()
getIO == ntIo
\* getUserSocketIds(userId)
getUserSocketIds(userId) == ntConnected[userId]

RECURSIVE EmitEach(_, _, _)
EmitEach(s, socketIds, notifId) ==
    IF s > 3 THEN <<>>
    ELSE (IF s \in socketIds THEN <<[socket |-> s, id |-> notifId]>> ELSE <<>>)
         \o EmitEach(s + 1, socketIds, notifId)

\* lines 23-40 emitting to the first socket id only
Emissions_FirstSocketOnly(io, socketIds, notifId) ==
    IF io /\ socketIds # {}
    THEN <<[socket |-> CHOOSE s \in socketIds : \A o \in socketIds : s <= o,
            id |-> notifId]>>
    ELSE <<>>

\* notifications.js:23-40: the newNotification emissions of one call
Emissions(io, socketIds, notifId) ==
    IF io /\ socketIds # {} THEN EmitEach(1, socketIds, notifId) ELSE <<>>

\* the calls of a loop that awaits each createNotification before the next
StartedCalls_FirstOnly(userIds) ==
    [i \in DOMAIN userIds |->
        [userId |-> userIds[i], notifId |-> i,
         phase |-> IF i = 1 THEN "inserting" ELSE "waiting"]]

\* notifications.js:57 and 12-20: userIds.map(createNotification) runs every
\* call up to its await of the insert; notifId is the call's uuid
StartedCalls(userIds) ==
    [i \in DOMAIN userIds |->
        [userId |-> userIds[i], notifId |-> i, phase |-> "inserting"]]

\* Promise.all of the calls
PromiseAll(calls) ==
    IF \E i \in DOMAIN calls : calls[i].phase = "rejected" THEN "rejected"
    ELSE IF \A i \in DOMAIN calls : calls[i].phase = "resolved" THEN "resolved"
    ELSE "pending"

\* createNotificationsForUsers(userIds, type, payload)
createNotificationsForUsers(userIds) ==
    /\ ntCalls = <<>>
    /\ ntCalls' = StartedCalls(userIds)
    /\ ntAll' = "pending"
    /\ UNCHANGED <<ntRows, ntEmitted, ntIo, ntConnected, ntSettled>>
    /\ UNCHANGED <<apiVars, bkVars, msgVars, sockVars, ctxVars, typVars>>

\* notifications.js:17-42: the insert succeeded; emit and return notifId
InsertDone(i) ==
    /\ i \in DOMAIN ntCalls
    /\ ntCalls[i].phase = "inserting"
    /\ ntRows' = Append(ntRows, [id |-> ntCalls[i].notifId,
                                 userId |-> ntCalls[i].userId])
    /\ ntEmitted' = ntEmitted \o Emissions(getIO, getUserSocketIds(ntCalls[i].userId),
                                           ntCalls[i].notifId)
    /\ ntCalls' = [ntCalls EXCEPT ![i].phase = "resolved"]
    /\ ntSettled' = Append(ntSettled, i)
    /\ ntAll' = IF ntAll = "pending" THEN PromiseAll(ntCalls') ELSE ntAll
    /\ UNCHANGED <<ntIo, ntConnected>>
    /\ UNCHANGED <<apiVars, bkVars, msgVars, sockVars, ctxVars, typVars>>

\* notifications.js:43-46: the insert failed; log and rethrow
InsertFails(i) ==
    /\ i \in DOMAIN ntCalls
    /\ ntCalls[i].phase = "inserting"
    /\ ntCalls' = [ntCalls EXCEPT ![i].phase = "rejected"]
    /\ ntSettled' = Append(ntSettled, i)
    /\ ntAll' = IF ntAll = "pending" THEN PromiseAll(ntCalls') ELSE ntAll
    /\ UNCHANGED <<ntRows, ntEmitted, ntIo, ntConnected>>
    /\ UNCHANGED <<apiVars, bkVars, msgVars, sockVars, ctxVars, typVars>>

\* a client connects and authenticates, or disconnects
Connect(s) ==
    /\ ntIo
    /\ s \notin ntConnected[SocketUser(s)]
    /\ ntConnected' = [ntConnected EXCEPT ![SocketUser(s)] = @ \cup {s}]
    /\ UNCHANGED <<ntRows, ntEmitted, ntIo, ntCalls, ntSettled, ntAll>>
    /\ UNCHANGED <<apiVars, bkVars, msgVars, sockVars, ctxVars, typVars>>

Disconnect(s) ==
    /\ s \in ntConnected[SocketUser(s)]
    /\ ntConnected' = [ntConnected EXCEPT ![SocketUser(s)] = @ \ {s}]
    /\ UNCHANGED <<ntRows, ntEmitted, ntIo, ntCalls, ntSettled, ntAll>>
    /\ UNCHANGED <<apiVars, bkVars, msgVars, sockVars, ctxVars, typVars>>

\* the server before any call; the socket server is initialised or not
NtInit ==
    /\ ntRows = <<>>
    /\ ntEmitted = <<>>
    /\ ntIo \in BOOLEAN
    /\ ntConnected = [u \in UserIds |-> {}]
    /\ ntCalls = <<>>
    /\ ntSettled = <<>>
    /\ ntAll = "none"

NotifyNext ==
    \/ \E userIds \in TargetLists : createNotificationsForUsers(userIds)
    \/ \E i \in 1..MaxTargets : InsertDone(i)
    \/ \E i \in 1..MaxTargets : InsertFails(i)
    \/ \E s \in SocketIds : Connect(s)
    \/ \E s \in SocketIds : Disconnect(s)

CtxIdle ==
    /\ onlineUsers = NoEntries
    /\ typingStatus = NoEntries
    /\ notifications = Undefined_List
    /\ permission = "default"
    /\ shown = <<>>

TypIdle ==
    /\ mounted = FALSE
    /\ isTyping = FALSE
    /\ typingTimeout = NoConv
    /\ lastTyping = [c \in ConvIds |-> "none"]
    /\ typingTrue = 0

NtIdle ==
    /\ ntRows = <<>>
    /\ ntEmitted = <<>>
    /\ ntIo = FALSE
    /\ ntConnected = [u \in UserIds |-> {}]
    /\ ntCalls = <<>>
    /\ ntSettled = <<>>
    /\ ntAll = "none"

RtIdle == CtxIdle /\ TypIdle /\ NtIdle

(***************************************************************************)
(* Specifications.                                                         *)
(***************************************************************************)
ApiInit ==
    /\ clock = StartTime
    /\ ticks = 0
    /\ ncalls = 0
    /\ pendingRequests = [k \in Keys |-> NoPromise]
    /\ rateLimitState = [retryAfter |-> 0, last429Time |-> 0]
    /\ requestThrottle = [e \in Endpoints |-> 0]
    /\ req = [c \in Calls |-> NoRequest]
    /\ pc = [c \in Calls |-> "idle"]
    /\ retryCount = [c \in Calls |-> 0]
    /\ now = [c \in Calls |-> 0]
    /\ deadline = [c \in Calls |-> 0]
    /\ joined = [c \in Calls |-> NoPromise]
    /\ result = [c \in Calls |-> NoResult]
    /\ fetches = [c \in Calls |-> 0]
    /\ lastStatus = [c \in Calls |-> 0]
    /\ storedUser = TRUE
    /\ expiredSignals = 0
    /\ redirects = 0

ApiNext ==
    \/ \E q \in Requests : Call(q, MaxCalls)
    \/ \E c \in Calls : GlobalWaitDone(c)
    \/ \E c \in Calls : ThrottleDone(c)
    \/ \E c \in Calls : FetchRejects(c)
    \/ \E c \in Calls : RespondOk(c)
    \/ \E c \in Calls, parsed \in BOOLEAN : JsonDone(c, parsed)
    \/ \E c \in Calls, h \in ApiHeaders : Respond429Retry(c, h)
    \/ \E c \in Calls, h \in ApiHeaders, b \in ApiBodies : Respond429Exhausted(c, h, b)
    \/ \E c \in Calls, s \in ErrorStatuses, b \in ApiBodies : RespondError(c, s, b)
    \/ \E c \in Calls : BackoffDone(c)
    \/ AdvanceToTimer
    \/ Tick

\* A burst of calls against a server that never answers 429.
BurstNext ==
    \/ \E q \in Requests : Call(q, MaxBurstCalls)
    \/ \E c \in Calls : ThrottleDone(c)
    \/ \E c \in Calls : FetchRejects(c)
    \/ \E c \in Calls : RespondOk(c)
    \/ \E c \in Calls, parsed \in BOOLEAN : JsonDone(c, parsed)
    \/ \E c \in Calls, s \in ErrorStatuses, b \in ApiBodies : RespondError(c, s, b)
    \/ AdvanceToTimer
    \/ Tick

\* Calls to the authentication endpoints and to others; no 429.
SessionNext ==
    \/ \E q \in SessionRequests : Call(q, MaxSessionCalls)
    \/ \E c \in Calls : ThrottleDone(c)
    \/ \E c \in Calls : FetchRejects(c)
    \/ \E c \in Calls : RespondOk(c)
    \/ \E c \in Calls, parsed \in BOOLEAN : JsonDone(c, parsed)
    \/ \E c \in Calls, s \in ErrorStatuses, b \in ApiBodies : RespondError(c, s, b)
    \/ AdvanceToTimer
    \/ Tick

BackoffNext == ComputeDelay \/ \E h \in Headers : NextAttempt(h)

\* The request gateway: MaxCalls calls, every response.
\* Only apiRequest runs.
InitApi == ApiInit /\ BkIdle /\ MsgIdle /\ SockIdle /\ RtIdle
SpecApi == InitApi /\ [][ApiNext]_vars

\* The request gateway: MaxBurstCalls calls, no rate limiting.
SpecBurst == InitApi /\ [][BurstNext]_vars

\* The delays of successive 429 responses of one call.
\* The gateway's handling of error responses, by endpoint.
SpecSession == InitApi /\ [][SessionNext]_vars

\* The session, the socket and the gateway's 401 handling.
InitSocket == ApiInit /\ BkIdle /\ MsgIdle /\ SockInit /\ RtIdle
SpecSocket == InitSocket /\ [][SocketNext]_vars

InitBackoff == ApiInit /\ BkInit /\ MsgIdle /\ SockIdle /\ RtIdle
SpecBackoff == InitBackoff /\ [][BackoffNext]_vars

\* The messaging page: sends, their responses and the pushes.
InitMsg == ApiInit /\ BkIdle /\ MsgInit /\ SockIdle /\ RtIdle
SpecMsg == InitMsg /\ [][MsgNext]_vars

\* The socket provider's handlers of inbound events.
InitRealtime == ApiInit /\ BkIdle /\ MsgIdle /\ SockConnected /\ RtIdle
SpecRealtime == InitRealtime /\ [][RealtimeNext]_vars
\* The typing indicator of the compose box.
SpecTyping == InitRealtime /\ [][TypingNext]_vars
\* An armed timer fires.
SpecTypingFair == SpecTyping /\ WF_vars(TypingTimeout)
\* The server creating notifications while clients connect and disconnect.
InitNotify == ApiInit /\ BkIdle /\ MsgIdle /\ SockIdle /\ CtxIdle /\ TypIdle /\ NtInit
SpecNotify == InitNotify /\ [][NotifyNext]_vars
\* The messaging page: sends, pushes, delivery and read receipts.
SpecReceipts == InitMsg /\ [][ReceiptsNext]_vars
\* Every event that arrives is handled.
SpecRealtimeFair == SpecRealtime /\ WF_vars(RealtimeNext)

(***************************************************************************)
(* Properties of the request gateway.                                      *)
(***************************************************************************)
Made(c) == c <= ncalls
InFlight(c) == pc[c] \in {"gwait", "twait", "fetching", "bwait"}
\* Call c issues an underlying fetch in this step.
Issues(c) == fetches'[c] = fetches[c] + 1

\* C1: a call made while an earlier call with the same method, endpoint and body has
\* not yet got its response (it waits in a delay or for its fetch) issues no fetch of
\* its own and, once it has passed its own delays, shares the earlier call's outcome.
C1_OneFetchPerSignature ==
    \A c \in Calls, d \in Calls :
        (Made(c) /\ d < c /\ KeyOf(c) = KeyOf(d) /\ InFlight(d))
            => /\ fetches[c] = 0
               /\ pc[c] = "joined" => Outcome(c) = Outcome(d)

\* C3: when the backoff delay of a 429 with retries left has elapsed, the call goes
\* on to a new fetch: it is waiting for its throttle or the global backoff, or has
\* issued the fetch; it never ends the retry without one.
C3_RetryIssuesFetch ==
    [][\A c \in Calls :
          (pc[c] = "bwait" /\ pc'[c] # "bwait")
              => /\ pc'[c] \in {"gwait", "twait", "fetching"}
                 /\ retryCount'[c] = retryCount[c] + 1]_vars

\* C4: a call issues at most maxRetries + 1 = 4 fetches; a 429 answering the attempt
\* with retryCount = 3 settles the call, with no further fetch, as an error of status
\* 429 carrying the parsed body, or the default body when the body is not JSON.
C4_BoundedRetries ==
    \A c \in Calls :
        /\ fetches[c] <= 4
        /\ retryCount[c] <= 3
        /\ (lastStatus[c] = 429 /\ retryCount[c] = 3)
               => /\ fetches[c] = 4
                  /\ pc[c] = "settled"
                  /\ Outcome(c).kind = "error"
                  /\ Outcome(c).status = 429
                  /\ Outcome(c).originalError \in
                         {[message |-> b.message, error |-> b.error] :
                              b \in {x \in ApiBodies : x.parseable}}
                         \cup {[message |-> "", error |-> RateLimitMsg]}

C4_Witness ==
    \E c \in Calls :
        /\ lastStatus[c] = 429 /\ retryCount[c] = 3 /\ fetches[c] = 4
        /\ Outcome(c).status = 429
        /\ Outcome(c).originalError = [message |-> "", error |-> "slow down"]

\* C5: every call made can still settle: its outcome never depends on a promise that
\* waits for itself.
C5_NoCallHangs ==
    \A c \in Calls : Made(c) => (Settled(c) \/ Outcome(c).kind = "pending")

\* C6: an entry of the pending-request map belongs to a request that is in flight,
\* and while a request's fetch is in flight the entry of its signature is its own
\* promise.
C6_EntryWhileInFlight ==
    /\ \A k \in Keys :
           pendingRequests[k] # NoPromise
               => LET c == pendingRequests[k][1]
                  IN KeyOf(c) = k /\ ~Settled(c)
    /\ \A c \in Calls :
           pc[c] = "fetching" => pendingRequests[KeyOf(c)] = <<c, retryCount[c]>>

\* C7: a fetch to an endpoint is issued at least THROTTLE_DELAY = 100 ms after the
\* previous fetch to that endpoint.
C7_FetchSpacing ==
    [][\A c \in Calls :
          (Issues(c) /\ requestThrottle[req'[c].endpoint] # 0)
              => clock' - requestThrottle[req'[c].endpoint] >= 100]_vars

\* C8: no fetch is issued before the global not-before timestamp then in force.
C8_NoFetchBeforeNotBefore ==
    [][\A c \in Calls : Issues(c) => clock' >= rateLimitState.retryAfter]_vars

(***************************************************************************)
(* Properties of the backoff delay.                                        *)
(***************************************************************************)
\* C9: without a retry-after header the delays of attempts 0, 1, 2, 3 are 1000,
\* 2000, 4000, 8000 ms, and no delay exceeds 10000 ms (the value from attempt 4 on).
C9_ExponentialBackoff ==
    (bkDelay # NotComputed /\ bkHeader = NoHeader)
        => /\ bkDelay <= 10000
           /\ bkAttempt = 0 => bkDelay = 1000
           /\ bkAttempt = 1 => bkDelay = 2000
           /\ bkAttempt = 2 => bkDelay = 4000
           /\ bkAttempt = 3 => bkDelay = 8000
           /\ bkAttempt >= 4 => bkDelay = 10000

C9_Witness == bkHeader = NoHeader /\ bkAttempt = 4 /\ bkDelay = 10000

\* The value of a string of decimal digits.
RECURSIVE DecimalValue(_)
DecimalValue(s) ==
    IF s = <<>> THEN 0 ELSE 10 * DecimalValue(SubSeq(s, 1, Len(s) - 1)) + DigitVal(s[Len(s)])
IsInteger(s) == s # NoHeader /\ s # <<>> /\ \A i \in 1..Len(s) : IsDigit(s[i])

\* C10: a retry-after header with integer value n >= 0 gives the delay n * 1000 ms
\* at every attempt.
C10_RetryAfterHonoured ==
    (bkDelay # NotComputed /\ IsInteger(bkHeader))
        => bkDelay = DecimalValue(bkHeader) * 1000

(***************************************************************************)
(* Reconciliation of a send with its confirmation and its push.            *)
(***************************************************************************)
\* the entries of conversation conv's message list with this id
EntriesWithId(conv, id) ==
    {i \in 1..Len(messagesCache[conv].list) : messagesCache[conv].list[i].id = id}

\* both the HTTP confirmation and the newMessage push of send s have been applied
Reconciled(s) == sends[s].phase = "confirmed" /\ pushes[Root(s)] > 0

\* another send, not yet confirmed, put its own optimistic entry under the same id
TempIdReused(s) ==
    \E t \in Sends \ {s} :
        /\ sends[t].phase = "awaiting"
        /\ sends[t].conv = sends[s].conv
        /\ sends[t].tempId = sends[s].tempId

\* C2: once the HTTP confirmation and the newMessage push of a send have both been
\* applied, in either order and with other sends, pushes and edits in between, the
\* conversation's list holds exactly one entry with the server id of the message and
\* no entry with the temporary id of that send.
C2_OneEntryPerSend ==
    \A s \in Sends :
        Reconciled(s)
            => /\ messagesCache[sends[s].conv].cached
               /\ Cardinality(EntriesWithId(sends[s].conv, ServerId(Root(s)))) = 1
               /\ TempIdReused(s) \/ EntriesWithId(sends[s].conv, sends[s].tempId) = {}

\* a reconciled send whose push could match its optimistic entry, next to a second
\* send of the same body in the same conversation
C2_Witness ==
    \E s \in Sends, t \in Sends :
        /\ s # t
        /\ Reconciled(s)
        /\ Root(s) = s
        /\ serverMessages[s].sentAt - sends[s].sentAt < MATCH_WINDOW
        /\ sends[t].phase = "awaiting"
        /\ sends[t].conv = sends[s].conv
        /\ sends[t].body = sends[s].body
        /\ Len(messagesCache[sends[s].conv].list) >= 3

(***************************************************************************)
(* The 401 branch of apiRequest.                                           *)
(***************************************************************************)
\* a response of this status settles call c in this step
Answered(c, status) ==
    pc[c] = "fetching" /\ pc'[c] = "settled" /\ lastStatus'[c] = status

\* C11: a 401 answering a call to an endpoint other than login, register,
\* forgot-password and reset-password clears the stored session, broadcasts one
\* sessionExpired signal and schedules one redirect; a 401 answering one of those four
\* leaves all three unchanged; either way the caller gets an error of status 401.
C11_SessionExpiry ==
    [][\A c \in Calls :
          Answered(c, 401)
              => /\ Outcome(c)'.kind = "error" /\ Outcome(c)'.status = 401
                 /\ IF req[c].endpoint \in AuthEndpoints
                    THEN UNCHANGED sessionVars
                    ELSE /\ storedUser' = FALSE
                         /\ expiredSignals' = expiredSignals + 1
                         /\ redirects' = redirects + 1]_vars

\* a 401 has cleared the session after an earlier 401 to an authentication endpoint
\* left it alone
C11_Witness ==
    \E c \in Calls, d \in Calls :
        /\ req[c].endpoint = Ep_login /\ pc[c] = "settled" /\ lastStatus[c] = 401
        /\ req[d].endpoint = Ep_me /\ pc[d] = "settled" /\ lastStatus[d] = 401
        /\ ~storedUser /\ expiredSignals = 1 /\ redirects = 1

(***************************************************************************)
(* The message list under pushes, confirmations and failures.              *)
(***************************************************************************)
\* C12: once the newMessage push of a message has been applied twice, whatever else
\* happened before, between and after, the conversation's list never holds two
\* entries with the id of that message.
C12_PushIdempotent ==
    \A n \in Stored :
        pushes[n] >= 2
            => Cardinality(EntriesWithId(serverMessages[n].conversationId, ServerId(n))) <= 1

\* the push of a message this user sent was applied twice, around its confirmation
C12_Witness ==
    \E s \in Sends :
        /\ pushes[s] = 2
        /\ sends[s].phase = "confirmed"
        /\ EntriesWithId(sends[s].conv, ServerId(s)) # {}
        /\ Len(messagesCache[sends[s].conv].list) >= 2

\* C13: a send whose request was answered with the stored message has, in its
\* conversation's list, exactly one entry with the server's id, that entry has the
\* body that was sent, and the entry with the send's temporary id is gone.
C13_ConfirmedRoundTrip ==
    \A s \in Sends :
        sends[s].phase = "confirmed"
            => LET list == messagesCache[sends[s].conv].list
                   real == EntriesWithId(sends[s].conv, ServerId(Root(s)))
               IN /\ messagesCache[sends[s].conv].cached
                  /\ Cardinality(real) = 1
                  /\ \A i \in real : list[i].body = sends[s].body
                  /\ TempIdReused(s) \/ EntriesWithId(sends[s].conv, sends[s].tempId) = {}

\* a confirmed send whose push has not arrived, typed with a trailing blank
C13_Witness ==
    \E s \in Sends :
        /\ sends[s].phase = "confirmed"
        /\ pushes[Root(s)] = 0
        /\ sends[s].typed # sends[s].body
        /\ Len(messagesCache[sends[s].conv].list) >= 2

\* the temporary id of send s names no optimistic entry of another send
OwnTempId(s) ==
    \A t \in Sends \ {s} :
        sends[t].phase = "awaiting" => sends[t].tempId # sends[s].tempId

\* C14: when the send-message request fails, each send that awaited it has its
\* optimistic entry removed from the conversation's list, and the compose input is the
\* text the box held when the form was submitted.
C14_FailureRestores ==
    [][\A r \in Sends :
          SendRejected(r)
              => \A s \in Awaiting(r) :
                     /\ OwnTempId(s)
                            => \A i \in 1..Len(messagesCache'[sends[s].conv].list) :
                                   messagesCache'[sends[s].conv].list[i].id # sends[s].tempId
                     /\ messageInput' = sends[s].typed]_vars

\* C15: when the send-message request fails, the preview of the conversation does not
\* refer to the optimistic message that was removed.
C15_FailureRevertsPreview ==
    [][\A r \in Sends :
          SendRejected(r)
              => \A s \in Awaiting(r) :
                     (conversationsCache.cached /\ sends[s].conv \in DOMAIN conversationsCache.list
                          /\ OwnTempId(s))
                         => conversationsCache'.list[sends[s].conv].lastMessage.id
                                # sends[s].tempId]_vars

\* C16: the preview of every listed conversation whose message list is cached and not
\* empty is the last entry of that list.
C16_PreviewIsNewest ==
    conversationsCache.cached
        => \A c \in DOMAIN conversationsCache.list :
               (messagesCache[c].cached /\ messagesCache[c].list # <<>>)
                   => conversationsCache.list[c].lastMessage
                          = messagesCache[c].list[Len(messagesCache[c].list)]

\* the list of message n's conversation holds an entry with n's id
Known(n) == EntriesWithId(serverMessages[n].conversationId, ServerId(n)) # {}

\* C17: a newMessage push of a message whose id is in the conversation's list changes
\* neither the list nor the conversation's preview.
C17_KnownPushIsNoOp ==
    [][\A n \in Stored :
          (NewMessage(n) /\ Known(n))
              => UNCHANGED <<messagesCache, conversationsCache>>]_vars

\* C18: a newMessage push of a message whose id is not in the list puts it in the
\* place of the first entry that has a temp- id, its sender, its body and a sentAt less
\* than 5000 ms from its own, all other entries and the length unchanged; with no such
\* entry the list is the old list (empty if it was absent) with the message appended.
C18_ReplaceFirstMatchOrAppend ==
    [][\A n \in Stored :
          (NewMessage(n) /\ ~Known(n))
              => LET message == serverMessages[n]
                     old == IF messagesCache[message.conversationId].cached
                            THEN messagesCache[message.conversationId].list ELSE <<>>
                     new == messagesCache'[message.conversationId].list
                     Match(i) ==
                         /\ old[i].id[1] = "temp-"
                         /\ old[i].senderId = message.senderId
                         /\ old[i].body = message.body
                         /\ old[i].sentAt - message.sentAt < 5000
                         /\ message.sentAt - old[i].sentAt < 5000
                 IN /\ messagesCache'[message.conversationId].cached
                    /\ IF \E i \in 1..Len(old) : Match(i)
                       THEN /\ Len(new) = Len(old)
                            /\ \A i \in 1..Len(old) :
                                   new[i] = IF Match(i) /\ \A j \in 1..(i - 1) : ~Match(j)
                                            THEN message ELSE old[i]
                       ELSE new = old \o <<message>>]_vars

\* a pushed message stands where the optimistic entry of a send still awaiting its
\* response stood, before the optimistic entry of a later send
C18_Witness ==
    \E s \in Sends :
        /\ sends[s].phase = "awaiting"
        /\ pushes[Root(s)] = 1
        /\ EntriesWithId(sends[s].conv, sends[s].tempId) = {}
        /\ \E i \in EntriesWithId(sends[s].conv, ServerId(Root(s))) :
               /\ i < Len(messagesCache[sends[s].conv].list)
               /\ messagesCache[sends[s].conv].list[i + 1].id[1] = "temp-"

(***************************************************************************)
(* The socket connection and the session.                                  *)
(***************************************************************************)
\* C19: at most one connection is open; while there is no user no connection is open
\* and the socket state is null; and when a user appears while the session store
\* holds a token, a new connection is opened and becomes the socket state.
C19_OneConnectionPerSession ==
    /\ [](/\ Cardinality(live) <= 1
          /\ authUser = NoUserObject => (live = {} /\ socket = NoSocket))
    /\ [][(authUser = NoUserObject /\ authUser' # NoUserObject
              /\ TokenOf(storedUser', storedToken') # NoToken)
             => /\ socket' > opened
                /\ live' = {[id |-> socket', token |-> TokenOf(storedUser', storedToken')]}]_vars

\* after a logout and a login the second connection is the open one
C19_Witness ==
    /\ reloads = 0
    /\ authUser # NoUserObject
    /\ opened >= 2
    /\ live = {[id |-> opened, token |-> "t2"]}
    /\ socket = opened

\* C20: while a connection is open the session store holds a token.
C20_LiveOnlyWithSession ==
    live # {} => TokenOf(storedUser, storedToken) # NoToken

(***************************************************************************)
(* Properties of presence, typing and notifications.                       *)
(***************************************************************************)
\* C21: a presence event sets the entry of its user to its online value,
\* whatever the entry was, and leaves the entry of every other user as it was.
C21_PresenceLastWriteWins ==
    [][\A u \in UserIds, online \in BOOLEAN :
          Presence(u, online) =>
              /\ u \in DOMAIN onlineUsers' /\ onlineUsers'[u] = online
              /\ \A v \in UserIds \ {u} :
                    /\ v \in DOMAIN onlineUsers' <=> v \in DOMAIN onlineUsers
                    /\ v \in DOMAIN onlineUsers => onlineUsers'[v] = onlineUsers[v]]_vars

\* an event for Me has overwritten Me's entry while Other's entry stayed
C21_Witness ==
    /\ Me \in DOMAIN onlineUsers /\ onlineUsers[Me] = FALSE
    /\ Other \in DOMAIN onlineUsers /\ onlineUsers[Other] = TRUE
    /\ Third \notin DOMAIN onlineUsers

IsTypingIn(c, u) == c \in DOMAIN typingStatus /\ u \in typingStatus[c]

\* C23: a user who is in a conversation's typing set is eventually no longer
\* in it, whether or not a typing event with isTyping = false arrives.
C23_TypingExpires ==
    \A c \in ConvIds, u \in TypingUsers : IsTypingIn(c, u) ~> ~IsTypingIn(c, u)

InList(id) == \E i \in DOMAIN notifications.list : notifications.list[i].id = id

\* C24: the cached notification list holds at most one entry per id, and a
\* newNotification push whose id is in the list leaves the list as it is.
C24_OneEntryPerNotification ==
    /\ [](\A i, j \in DOMAIN notifications.list :
              notifications.list[i].id = notifications.list[j].id => i = j)
    /\ [][\A id \in NotificationIds :
              (NewNotification(NotificationOf(id)) /\ InList(id))
                  => notifications' = notifications]_vars

\* n1 was pushed, then n2, then one of them again: a browser notification
\* was shown for each of the three pushes and the list holds two entries
C24_Witness ==
    /\ Len(notifications.list) = 2
    /\ notifications.list[1].id = "n2"
    /\ notifications.list[2].id = "n1"
    /\ Len(shown) > Len(notifications.list)

(***************************************************************************)
(* Properties of the typing indicator.                                     *)
(***************************************************************************)
\* C22: typing:true is emitted only on the transition from not typing to
\* typing: no step emits it while isTyping is already true.
C22_TypingTrueOnTransitionOnly ==
    [][typingTrue' > typingTrue => ~isTyping]_vars

\* C27: every typing:true emitted for a conversation is eventually followed
\* by a typing:false for that conversation.
C27_TypingTrueThenFalse ==
    \A c \in ConvIds : (lastTyping[c] = "on") ~> (lastTyping[c] = "off")

(***************************************************************************)
(* Properties of createNotification.                                       *)
(***************************************************************************)
RowsOf(rows, notifId) == Len(SelectSeq(rows, LAMBDA r : r.id = notifId))
EmittedTo(emitted, s, notifId) ==
    Len(SelectSeq(emitted, LAMBDA e : e.socket = s /\ e.id = notifId))

\* C25: a call whose insert is pending or failed has no row and no emission;
\* the step that completes the insert persists exactly one row and emits
\* newNotification exactly once to each socket then connected for the user
\* and to no other; with no socket connected it emits nothing and resolves.
C25_PersistThenEmitOnce ==
    /\ [](\A i \in DOMAIN ntCalls :
             ntCalls[i].phase \in {"inserting", "rejected"} =>
                 /\ RowsOf(ntRows, ntCalls[i].notifId) = 0
                 /\ \A s \in SocketIds : EmittedTo(ntEmitted, s, ntCalls[i].notifId) = 0)
    /\ [](\A i \in DOMAIN ntCalls :
             ntCalls[i].phase = "resolved" => RowsOf(ntRows, ntCalls[i].notifId) = 1)
    /\ [][\A i \in 1..MaxTargets :
             InsertDone(i) =>
                 /\ ntCalls'[i].phase = "resolved"
                 /\ \A s \in SocketIds :
                       EmittedTo(ntEmitted', s, ntCalls[i].notifId) =
                           IF s \in ntConnected[ntCalls[i].userId] THEN 1 ELSE 0]_vars
    /\ [][\A i \in 1..MaxTargets :
             InsertFails(i) => /\ ntCalls'[i].phase = "rejected"
                               /\ ntEmitted' = ntEmitted
                               /\ ntRows' = ntRows]_vars

\* a call for Me resolved: one row, one emission to each of Me's two sockets,
\* none to the socket of the other user
C25_Witness ==
    /\ \E i \in DOMAIN ntCalls : ntCalls[i].phase = "resolved" /\ ntCalls[i].userId = Me
    /\ Len(ntRows) = 1
    /\ Len(ntEmitted) = 2
    /\ ntConnected[Other] = {3}

\* C26: createNotificationsForUsers starts the call of every target user; the
\* failure of one call changes no other call, and a call whose insert is
\* pending can complete, persisting its row and emitting, whatever became of
\* the others.
C26_TargetsIndependent ==
    /\ [](\A i \in DOMAIN ntCalls :
             /\ ntCalls[i].phase \in {"inserting", "resolved", "rejected"}
             /\ ntCalls[i].phase = "inserting" => ENABLED InsertDone(i))
    /\ [][\A i \in 1..MaxTargets :
             InsertFails(i) =>
                 \A j \in DOMAIN ntCalls \ {i} : ntCalls'[j] = ntCalls[j]]_vars

\* the call for the first user failed, and then the call for the second
\* user persisted its row and emitted to that user's socket
C26_Witness ==
    /\ ntSettled = <<1, 2>>
    /\ ntCalls[1].phase = "rejected"
    /\ ntCalls[2].phase = "resolved"
    /\ ntAll = "rejected"
    /\ Len(ntRows) = 1 /\ ntRows[1].id = 2
    /\ Len(ntEmitted) = 1 /\ ntEmitted[1].id = 2

(***************************************************************************)
(* Properties of receipts, of temporary entries and of repeated sends.     *)
(***************************************************************************)
Marked(cache, c, id, field) ==
    \E i \in DOMAIN cache[c].list :
        cache[c].list[i].id = id /\ cache[c].list[i][field]

\* C28: a message with a server id that is marked delivered, or read, in the
\* cache is still marked after every step, the HTTP confirmation of its send
\* included.
C28_ReceiptsStay ==
    [][\A c \in ConvIds, n \in Stored, field \in {"delivered", "isRead"} :
          Marked(messagesCache, c, ServerId(n), field)
              => Marked(messagesCache', c, ServerId(n), field)]_vars

Settled_Sends ==
    /\ \A s \in Sends : sends[s].phase \in {"idle", "confirmed", "failed"}
    /\ \E s \in Sends : sends[s].phase # "idle"
TempEntries(c) ==
    {i \in DOMAIN messagesCache[c].list : StartsWithTemp(messagesCache[c].list[i].id)}

\* C29: when every send the user started has been confirmed or has failed,
\* no conversation's list holds an entry with a temporary id.
C29_NoTempAfterSettled ==
    Settled_Sends => \A c \in ConvIds : TempEntries(c) = {}

\* one send failed and a later one was confirmed, pushes having arrived, and
\* the list holds the confirmed message
C29_Witness ==
    /\ Settled_Sends
    /\ \E s, t \in Sends :
          /\ sends[s].phase = "failed" /\ sends[s].tempId # NoId
          /\ sends[t].phase = "confirmed"
          /\ sends[s].conv = sends[t].conv
          /\ pushes[Root(t)] > 0
          /\ EntriesWithId(sends[t].conv, ServerId(Root(t))) # {}

ConfirmedSends(c) == {s \in Sends : sends[s].phase = "confirmed" /\ sends[s].conv = c}
ConfirmedIds(c) ==
    {messagesCache[c].list[i].id :
        i \in {j \in DOMAIN messagesCache[c].list :
                  /\ messagesCache[c].list[j].senderId = Me
                  /\ ~StartsWithTemp(messagesCache[c].list[j].id)}}

\* C30: when the sends made in a conversation have all been confirmed, its
\* list holds as many distinct confirmed entries of the user as sends made.
C30_OneEntryPerConfirmedSend ==
    \A c \in ConvIds :
        (\A s \in Sends : sends[s].phase \in {"idle", "confirmed"})
            => Cardinality(ConfirmedIds(c)) = Cardinality(ConfirmedSends(c))
====
